---- MODULE Spec2Model ----
(***************************************************************************)
(* Product reviews: the review write service, the durable event bus, the   *)
(* debouncing rating worker and the rating calculator, over the catalog    *)
(* store (products and reviews tables).                                    *)
(*                                                                         *)
(* Ratings are kept in tenths (average_rating DECIMAL(2,1)): 43 is 4.3.    *)
(* One SQL statement is one atomic step of the store.                      *)
(*                                                                         *)
(* Specifications:                                                         *)
(*   SpecCalc     the calculator over bounded review tables                *)
(*   SpecStore    the products table under concurrent edits and recomputes *)
(*   SpecWorker   the debouncing worker as its unit tests drive it         *)
(*   SpecService  the review write service over store, cache and bus       *)
(*   SpecRun      two writers, the bus and the worker while it stays up;   *)
(*                FairRun adds the fairness of the goroutine scheduler     *)
(*   Spec         one writer, the bus and the worker with shutdown and     *)
(*                restart of the worker process                            *)
(*   SpecConsume  the worker's consumer over a stored stream of events     *)
(*   SpecFanout   the debouncer under events of many products              *)
(*   SpecDebounce the debouncer under events of one product                *)
(*   SpecCache    the Redis cache and InvalidateAllProductCache            *)
(*   SpecMutex    the worker with Lock and Unlock of its mutex as steps    *)
(*   SpecKinds    the worker under events that differ in kind and snapshot *)
(*   SpecStream   EnsureConsumer and the redelivery backoff it computes    *)
(***************************************************************************)
EXTENDS Integers, Sequences, FiniteSets, TLC

(***************************************************************************)
(* Bounds of the model.                                                    *)
(***************************************************************************)
NumProducts == 2
NumEditors == 2
MaxVersion == 3
MaxCalcReviews == 3
MaxRecomputes == 2
NumStoreProducts == 1
MaxTimers == 2
NumTimestamps == 2
NumRequests == 1
MaxRestarts == 1
MaxFailures == 1
NumMessages == 2
NumPages == 2
MaxDeliverBound == 36

(***************************************************************************)
(* Program constants.                                                      *)
(***************************************************************************)
MinRating == 1
MaxRating == 5
MaxNameLength == 100
MaxTextLength == 5000
InitialVersion == 1
DefaultRating == 0
maxRetries == 3
MaxDeliveryAttempts == 3
FetchBatch == 10
MaxConcurrentRecomputes == 10
\* time.Duration is an int64 count of nanoseconds; time.Second is 10^9 =
\* 1953125 * 2^9 of them
DurationBits == 64
SecondMantissa == 1953125
SecondShift == 9
\* CACHE_TTL_PRODUCT_RATING and CACHE_TTL_REVIEWS_LIST, in minutes
ProductRatingTTL == 5
ReviewsListTTL == 2

Products == 1..NumProducts
Editors == 1..NumEditors
Ratings == MinRating..MaxRating
\* Ratings the explored review tables are filled with.
SampleRatings == {MinRating, MinRating + 1, MaxRating}
\* The name a product is created with and the name an edit writes.
CreatedName == "a"
EditedName == "b"

VARIABLES
    products,        \* products table: row per product id
    reviews,         \* reviews table: sequence of rows, the index is the review id
    editors,         \* in-flight PUT /products/{id} handlers
    recomputed,      \* history: p was recomputed and its reviews did not change since
    pendingUpdates,  \* RatingWorker.pendingUpdates: product id -> pendingUpdate
    timers,          \* every time.AfterFunc timer the worker created, with its goroutine
    wg,              \* RatingWorker.wg: the WaitGroup counter
    shutdownPc,      \* position of RatingWorker.Shutdown
    proc,            \* the worker process: "up", "panicked" or "exited"
    afterFire,       \* history: an event for p was scheduled after a timer of p fired
    requests,        \* calls of the review write service, with their publish goroutines
    now,             \* the clock publishEvent stamps events with
    messages,        \* the REVIEWS stream with the state of the rating-worker consumer
    batch,           \* fetch loop: the messages of the current Fetch not yet acknowledged
    loopPc,          \* fetch loop: "fetch", "handle" or "ack"
    restarts,        \* how each worker process that was started again had ended
    redis,           \* the keys of the Redis cache with their remaining time to live
    invalidation,    \* the call of RedisCache.InvalidateAllProductCache in progress
    consumer,        \* the durable consumer of the stream, as EnsureConsumer leaves it
    mu,              \* RatingWorker.mu: the goroutine that holds the mutex
    failures         \* history: failures of the cache, the bus and the store so far

storeVars == <<products, reviews, recomputed>>
editVars == <<editors>>
lockVars == <<mu>>
streamVars == <<consumer>>
workerVars == <<pendingUpdates, timers, wg, shutdownPc, proc, afterFire>>
svcVars == <<requests, now, redis, invalidation>>
busVars == <<messages>>
mainVars == <<batch, loopPc, restarts>>
pipeVars == <<requests, now, redis, invalidation, messages, batch, loopPc, restarts>>
faultVars == <<failures>>
vars == <<products, reviews, editors, recomputed,
          pendingUpdates, timers, wg, shutdownPc, proc, afterFire,
          requests, now, redis, invalidation, messages, batch, loopPc, restarts, consumer, mu, failures>>

(***************************************************************************)
(* Catalog store rows.                                                     *)
(***************************************************************************)
MissingProduct ==
    [state |-> "missing", name |-> CreatedName, version |-> 0, average_rating |-> 0]

NewProduct(name) ==
    [state |-> "live", name |-> name, version |-> InitialVersion,
     average_rating |-> DefaultRating]

ReviewRow(p, r, del) == [product_id |-> p, rating |-> r, deleted |-> del]

\* ProductLive with a fault: a soft-deleted row counts as live
ProductLiveOrDeleted(p) == products[p].state # "missing"

\* the row of p exists with deleted_at IS NULL
ProductLive(p) == products[p].state = "live"

\* ids of the reviews of p with deleted_at IS NULL, in table rv
LiveReviews(rv, p) ==
    {i \in DOMAIN rv : rv[i].product_id = p /\ ~rv[i].deleted}

RECURSIVE SumRatings(_, _)
SumRatings(rv, S) ==
    IF S = {} THEN 0
    ELSE LET i == CHOOSE x \in S : TRUE
         IN  rv[i].rating + SumRatings(rv, S \ {i})

\* RoundAvg with a fault: the average truncated to one decimal instead of rounded
RoundAvgTruncated(sum, count) == (10 * sum) \div count

\* ROUND(AVG(rating)::numeric, 1), in tenths: numeric rounds half away from zero
RoundAvg(sum, count) == (20 * sum + count) \div (2 * count)

\* COALESCE((SELECT ROUND(AVG(rating)::numeric, 1) ...), 0)
AverageRatingOf(rv, p) ==
    LET S == LiveReviews(rv, p)
    IN  IF S = {} THEN 0 ELSE RoundAvg(SumRatings(rv, S), Cardinality(S))

\* RecalculatedRow with a fault: the UPDATE without "version = version + 1"
RecalculatedRowNoVersion(row, rv, p) ==
    [row EXCEPT !.average_rating = AverageRatingOf(rv, p)]

\* RecalculatedRow with a fault: the new mean folded into the stored average
RecalculatedRowIncremental(row, rv, p) ==
    [row EXCEPT !.average_rating = (row.average_rating + AverageRatingOf(rv, p) + 1) \div 2,
                !.version = row.version + 1]

\* the row the calculator's UPDATE writes for a live product
RecalculatedRow(row, rv, p) ==
    [row EXCEPT !.average_rating = AverageRatingOf(rv, p),
                !.version = row.version + 1]

\* CalculateAndUpdate with a fault: the UPDATE without "AND deleted_at IS NULL"
\* and without the check that the row exists
CalculateAndUpdateAnyRow(p) ==
    /\ products' = [products EXCEPT ![p] = RecalculatedRow(products[p], reviews, p)]
    /\ recomputed' = [recomputed EXCEPT ![p] = TRUE]
    /\ UNCHANGED reviews

(***************************************************************************)
(* Calculator.CalculateAndUpdate: one UPDATE statement. Zero rows affected *)
(* (product missing or soft-deleted) is not an error.                      *)
(***************************************************************************)
CalculateAndUpdate(p) ==
    /\ products' = IF ProductLive(p)
                   THEN [products EXCEPT ![p] = RecalculatedRow(products[p], reviews, p)]
                   ELSE products
    /\ recomputed' = IF ProductLive(p)
                     THEN [recomputed EXCEPT ![p] = TRUE]
                     ELSE recomputed
    /\ UNCHANGED reviews

(***************************************************************************)
(* ProductRepository.                                                      *)
(***************************************************************************)
\* INSERT INTO products ...: version DEFAULT 1, average_rating DEFAULT 0
ProductCreate(p, name) ==
    /\ products[p].state = "missing"
    /\ products' = [products EXCEPT ![p] = NewProduct(name)]
    /\ UNCHANGED <<reviews, recomputed>>

\* UPDATE products SET deleted_at = now WHERE id = p AND deleted_at IS NULL
ProductDelete(p) ==
    /\ ProductLive(p)
    /\ products' = [products EXCEPT ![p].state = "deleted"]
    /\ UNCHANGED <<reviews, recomputed>>

\* UpdateMatches with a fault: the WHERE clause without "AND version = $6"
UpdateMatchesAnyVersion(row, version) == row.state = "live"

\* the WHERE clause of ProductRepository.Update
UpdateMatches(row, version) == row.state = "live" /\ row.version = version

\* the row ProductRepository.Update writes when the WHERE clause matches
UpdatedRow(row, name) ==
    [row EXCEPT !.name = name, !.version = row.version + 1]

(***************************************************************************)
(* ProductHandler.Update: read the product (the observed version), then    *)
(* ProductRepository.Update with that version.                             *)
(***************************************************************************)
IdleEditor == [pc |-> "idle", product |-> 1, version |-> 0, name |-> EditedName,
               result |-> "none"]

InitEditors == editors = [e \in Editors |-> IdleEditor]

EditorRead(e, p, name) ==
    /\ editors[e].pc = "idle"
    /\ editors' = [editors EXCEPT ![e] =
                     IF ProductLive(p)
                     THEN [pc |-> "read", product |-> p,
                           version |-> products[p].version, name |-> name,
                           result |-> "none"]
                     ELSE [pc |-> "done", product |-> p, version |-> 0,
                           name |-> name, result |-> "not_found"]]
    /\ UNCHANGED storeVars

EditorUpdate(e) ==
    LET ed == editors[e]
        p  == ed.product
        ok == UpdateMatches(products[p], ed.version)
    IN  /\ ed.pc = "read"
        /\ products' = IF ok
                       THEN [products EXCEPT ![p] = UpdatedRow(products[p], ed.name)]
                       ELSE products
        /\ editors' = [editors EXCEPT ![e].pc = "done",
                                      ![e].result = IF ok THEN "ok" ELSE "conflict"]
        /\ UNCHANGED <<reviews, recomputed>>

EditorReturn(e) ==
    /\ editors[e].pc = "done"
    /\ editors' = [editors EXCEPT ![e] = IdleEditor]
    /\ UNCHANGED storeVars

(***************************************************************************)
(* ReviewRepository statements.                                            *)
(***************************************************************************)
\* INSERT INTO reviews ...: the foreign key needs the product row to exist
InsertReview(p, r) ==
    /\ products[p].state # "missing"
    /\ reviews' = Append(reviews, ReviewRow(p, r, FALSE))
    /\ recomputed' = [recomputed EXCEPT ![p] = FALSE]
    /\ UNCHANGED products

\* UPDATE reviews SET rating = r ... WHERE id = i AND deleted_at IS NULL
UpdateReview(i, r) ==
    /\ i \in DOMAIN reviews
    /\ ~reviews[i].deleted
    /\ reviews' = [reviews EXCEPT ![i].rating = r]
    /\ recomputed' = [recomputed EXCEPT ![reviews[i].product_id] = FALSE]
    /\ UNCHANGED products

\* UPDATE reviews SET deleted_at = now WHERE id = i AND deleted_at IS NULL
SoftDeleteReview(i) ==
    /\ i \in DOMAIN reviews
    /\ ~reviews[i].deleted
    /\ reviews' = [reviews EXCEPT ![i].deleted = TRUE]
    /\ recomputed' = [recomputed EXCEPT ![reviews[i].product_id] = FALSE]
    /\ UNCHANGED products

(***************************************************************************)
(* RatingWorker: the debouncer. A timer is the time.AfterFunc timer        *)
(* together with the processUpdate goroutine it starts:                    *)
(*   armed    waiting for the debounce window to elapse                    *)
(*   stopped  cancelled by Stop before it fired                            *)
(*   fired    the goroutine runs processUpdate, it has not locked mu yet   *)
(*   running  past the map delete, about to call the calculator            *)
(*   backoff  in the select between time.After(backoff) and ctx.Done()     *)
(*   done     processUpdate returned                                       *)
(* attempt is the loop variable of processUpdate, calls counts the calls   *)
(* of the calculator the goroutine has made.                               *)
(***************************************************************************)
NoPending == [timestamp |-> 0, timer |-> 0]

HasPending(p) == pendingUpdates[p].timer # 0

GetPendingCount == Cardinality({p \in Products : HasPending(p)})

NewTimer(p) == [product |-> p, state |-> "armed", attempt |-> 0, calls |-> 0]

TimersOf(p) == {t \in DOMAIN timers : timers[t].product = p}

\* ShuttingDown with a fault: scheduleUpdate does not look at shutdownCh
ShutdownNotChecked == FALSE

\* shutdownCh is closed
ShuttingDown == shutdownPc # "none"

\* w.ctx is cancelled
CtxCancelled == shutdownPc \notin {"none", "closed"}

\* the mutex when no goroutine holds it
Unlocked == [by |-> "none", product |-> 0, timestamp |-> 0, timer |-> 0]

InitWorker ==
    /\ mu = Unlocked
    /\ pendingUpdates = [p \in Products |-> NoPending]
    /\ timers = <<>>
    /\ wg = 0
    /\ shutdownPc = "none"
    /\ proc = "up"
    /\ afterFire = [p \in Products |-> FALSE]

\* StopTimer with a fault: the existing timer is left running
StopTimerSkipped(ts, t) == ts

\* timer.Stop(): prevents the timer from firing when it has not fired yet
StopTimer(ts, t) ==
    IF ts[t].state = "armed" THEN [ts EXCEPT ![t].state = "stopped"] ELSE ts

\* wg.Add(delta) and wg.Done(): a negative counter panics
WaitGroupAdd(delta) ==
    /\ wg' = wg + delta
    /\ proc' = IF wg + delta < 0 THEN "panicked" ELSE proc

\* IsStale with a fault: an older event is taken for a newer one
IsStaleNever(ts, existing) == FALSE

\* IsStale with a fault: an event as old as the pending one counts as stale
IsStaleOrEqual(ts, existing) == ts <= existing.timestamp

\* timestamp.Before(existing.timestamp)
IsStale(ts, existing) == ts < existing.timestamp

\* a timer of p has fired: its processUpdate was invoked
Invoked(p) == {t \in TimersOf(p) : timers[t].state \in {"fired", "running", "backoff", "done"}}

\* scheduleUpdate(productID, timestamp), under mu
ScheduleUpdate(p, ts) ==
    /\ proc = "up"
    /\ afterFire' = [afterFire EXCEPT ![p] = afterFire[p] \/ Invoked(p) # {}]
    /\ IF ShuttingDown \/ (HasPending(p) /\ IsStale(ts, pendingUpdates[p]))
       THEN UNCHANGED <<pendingUpdates, timers, wg, proc>>
       ELSE /\ timers' = Append(IF HasPending(p)
                                THEN StopTimer(timers, pendingUpdates[p].timer)
                                ELSE timers,
                                NewTimer(p))
            /\ WaitGroupAdd(IF HasPending(p) THEN 0 ELSE 1)
            /\ pendingUpdates' = [pendingUpdates EXCEPT
                                    ![p] = [timestamp |-> ts, timer |-> Len(timers) + 1]]
    /\ UNCHANGED shutdownPc

\* the debounce window elapsed: the runtime starts processUpdate in a goroutine
TimerFire(t) ==
    /\ proc = "up"
    /\ timers[t].state = "armed"
    /\ timers' = [timers EXCEPT ![t].state = "fired"]
    /\ UNCHANGED <<pendingUpdates, wg, shutdownPc, proc, afterFire>>

\* processUpdate: lock, delete(w.pendingUpdates, productID), unlock
ProcessStart(t) ==
    /\ proc = "up"
    /\ timers[t].state = "fired"
    /\ pendingUpdates' = [pendingUpdates EXCEPT ![timers[t].product] = NoPending]
    /\ timers' = [timers EXCEPT ![t].state = "running"]
    /\ UNCHANGED <<wg, shutdownPc, proc, afterFire>>

\* processUpdate returns: the deferred wg.Done()
ProcessReturn(t) ==
    /\ timers' = [timers EXCEPT ![t].state = "done"]
    /\ WaitGroupAdd(-1)

\* a timer whose goroutine called the calculator once more
Called(timer) == [timer EXCEPT !.calls = timer.calls + 1]

\* Failed with a fault: the loop variable is not incremented
FailedUncounted(timer, state) == [Called(timer) EXCEPT !.state = state]

\* a timer after a failed attempt: the loop comes to attempt++
Failed(timer, state) ==
    [Called(timer) EXCEPT !.state = state, !.attempt = timer.attempt + 1]

\* one pass of the retry loop: CalculateAndUpdate under the worker's context.
\* ok is the outcome of the statement; a cancelled context fails the call.
CalcAttempt(t, ok) ==
    /\ proc = "up"
    /\ timers[t].state = "running"
    /\ failures' = IF ~ok /\ ~CtxCancelled THEN failures + 1 ELSE failures
    /\ IF ok /\ ~CtxCancelled
       THEN /\ CalculateAndUpdate(timers[t].product)
            /\ timers' = [timers EXCEPT ![t] = [Called(timers[t]) EXCEPT !.state = "done"]]
            /\ WaitGroupAdd(-1)
       ELSE /\ UNCHANGED storeVars
            /\ IF timers[t].attempt + 1 < maxRetries
               THEN /\ timers' = [timers EXCEPT ![t] = Failed(timers[t], "backoff")]
                    /\ UNCHANGED <<wg, proc>>
               ELSE /\ timers' = [timers EXCEPT ![t] = Failed(timers[t], "done")]
                    /\ WaitGroupAdd(-1)
    /\ UNCHANGED <<pendingUpdates, shutdownPc, afterFire>>

\* BackoffElapsed with a fault: the goroutine sleeps for the backoff without
\* looking at the context
BackoffSlept(t) ==
    /\ proc = "up"
    /\ timers[t].state = "backoff"
    /\ timers' = [timers EXCEPT ![t].state = "running"]
    /\ UNCHANGED <<pendingUpdates, wg, shutdownPc, proc, afterFire>>

\* select: case <-time.After(backoff). The timer is created when the select
\* is entered and the goroutine blocked in the select leaves it through the
\* first channel that becomes ready: the backoff elapses only while the
\* context is not cancelled.
BackoffElapsed(t) ==
    /\ proc = "up"
    /\ timers[t].state = "backoff"
    /\ ~CtxCancelled
    /\ timers' = [timers EXCEPT ![t].state = "running"]
    /\ UNCHANGED <<pendingUpdates, wg, shutdownPc, proc, afterFire>>

\* select: case <-w.ctx.Done()
BackoffCancelled(t) ==
    /\ proc = "up"
    /\ timers[t].state = "backoff"
    /\ CtxCancelled
    /\ ProcessReturn(t)
    /\ UNCHANGED <<pendingUpdates, shutdownPc, afterFire>>

\* Shutdown: close(w.shutdownCh)
ShutdownBegin ==
    /\ proc = "up"
    /\ shutdownPc = "none"
    /\ shutdownPc' = "closed"
    /\ UNCHANGED <<pendingUpdates, timers, wg, proc, afterFire>>

\* Shutdown: w.cancel()
ShutdownCancel ==
    /\ proc = "up"
    /\ shutdownPc = "closed"
    /\ shutdownPc' = "cancelled"
    /\ UNCHANGED <<pendingUpdates, timers, wg, proc, afterFire>>

RECURSIVE StopAll(_, _)
StopAll(ts, S) ==
    IF S = {} THEN ts
    ELSE LET t == CHOOSE x \in S : TRUE IN StopAll(StopTimer(ts, t), S \ {t})

\* Shutdown, under mu: stop every pending timer, wg.Done() for each, clear the map
ShutdownClear ==
    /\ proc = "up"
    /\ shutdownPc = "cancelled"
    /\ timers' = StopAll(timers, {pendingUpdates[p].timer : p \in {q \in Products : HasPending(q)}})
    /\ WaitGroupAdd(0 - GetPendingCount)
    /\ pendingUpdates' = [p \in Products |-> NoPending]
    /\ shutdownPc' = "waiting"
    /\ UNCHANGED afterFire

\* Shutdown: wg.Wait() returned, case <-done
ShutdownDone ==
    /\ proc = "up"
    /\ shutdownPc = "waiting"
    /\ wg = 0
    /\ shutdownPc' = "returned"
    /\ UNCHANGED <<pendingUpdates, timers, wg, proc, afterFire>>

\* Shutdown: case <-ctx.Done(), the caller's deadline
ShutdownDeadline ==
    /\ proc = "up"
    /\ shutdownPc = "waiting"
    /\ shutdownPc' = "deadline"
    /\ UNCHANGED <<pendingUpdates, timers, wg, proc, afterFire>>

\* w.mu.Lock() by the goroutine that runs scheduleUpdate, processUpdate or
\* Shutdown: it blocks while another goroutine holds the mutex
Lock(holder) ==
    /\ proc = "up"
    /\ mu = Unlocked
    /\ mu' = holder

ScheduleHolder(p, ts) == [by |-> "schedule", product |-> p, timestamp |-> ts, timer |-> 0]

ProcessHolder(t) == [by |-> "process", product |-> timers[t].product, timestamp |-> 0, timer |-> t]

ShutdownHolder == [by |-> "shutdown", product |-> 0, timestamp |-> 0, timer |-> 0]

\* Released with a fault: processUpdate defers the Unlock to its return
ReleasedAtReturn(holder) == IF holder.by = "process" THEN holder ELSE Unlocked

\* the mutex after the critical section: w.mu.Unlock(), deferred in
\* scheduleUpdate so that every return runs it
Released(holder) == Unlocked

\* scheduleUpdate from its Lock on: the body and the deferred Unlock
ScheduleLocked ==
    /\ mu.by = "schedule"
    /\ ScheduleUpdate(mu.product, mu.timestamp)
    /\ mu' = Released(mu)

\* processUpdate from its Lock on: delete and Unlock
ProcessLocked ==
    /\ mu.by = "process"
    /\ ProcessStart(mu.timer)
    /\ mu' = Released(mu)

\* Shutdown from its Lock on: stop the timers, clear the map, Unlock
ShutdownLocked ==
    /\ mu.by = "shutdown"
    /\ ShutdownClear
    /\ mu' = Released(mu)

(***************************************************************************)
(* Review write service (Service.Create, Update, Delete). A request is one *)
(* call of the service; log lists the calls it made to the store, the      *)
(* cache and the bus, in the order it made them.                           *)
(***************************************************************************)
\* the lengths of the strings of a review
NoFields == [first_name |-> 0, last_name |-> 0, review_text |-> 0]

ValidFields == [first_name |-> 1, last_name |-> MaxNameLength, review_text |-> MaxTextLength]

\* uuid.Nil, the product id of a review that names no product
NoProduct == 0

IdleRequest ==
    [op |-> "none", pc |-> "idle", sent |-> NoProduct, product |-> NoProduct,
     review |-> 0, rating |-> 0, fields |-> NoFields,
     cache |-> "none", pub |-> "none", result |-> "none", timestamp |-> 0, log |-> <<>>]

(***************************************************************************)
(* RedisCache. Per product the cache holds the rating key, one key per     *)
(* page (limit, offset) of the review list, and the set cache_keys that    *)
(* tracks the page keys. A key is held as its remaining time to live, 0    *)
(* for a key that does not exist; a set without members does not exist.    *)
(***************************************************************************)
\* the pages of a review list: each stands for one pair (limit, offset)
Pages == 1..NumPages

EmptyCache ==
    [rating |-> [p \in Products |-> 0],
     lists |-> [p \in Products |-> [g \in Pages |-> 0]],
     keys |-> [p \in Products |-> {}],
     keysTTL |-> [p \in Products |-> 0]]

\* SetProductRating: SET product:p:rating with productRatingTTL
SetProductRating(c, p) == [c EXCEPT !.rating[p] = ProductRatingTTL]

\* SetReviewsList: the pipeline SET page key, SADD cache_keys, EXPIRE cache_keys
SetReviewsList(c, p, g) ==
    [c EXCEPT !.lists[p][g] = ReviewsListTTL,
              !.keys[p] = @ \cup {g},
              !.keysTTL[p] = ReviewsListTTL]

\* InvalidateProductRating: DEL product:p:rating
InvalidateProductRating(c, p) == [c EXCEPT !.rating[p] = 0]

\* SMEMBERS product:p:cache_keys
SMembers(c, p) == c.keys[p]

\* UNLINK of the page keys K and of the tracking key of p
Unlinked(c, p, K) ==
    [c EXCEPT !.lists[p] = [g \in Pages |-> IF g \in K THEN 0 ELSE @[g]],
              !.keys[p] = {},
              !.keysTTL[p] = 0]

\* InvalidateReviewsList as one command sequence without interleaving
ReviewsListInvalidated(c, p) ==
    IF SMembers(c, p) # {} THEN Unlinked(c, p, SMembers(c, p)) ELSE c

\* InvalidateAllProductCache as one command sequence without interleaving
AllProductCacheInvalidated(c, p) ==
    ReviewsListInvalidated(InvalidateProductRating(c, p), p)

Lapsed(ttl) == IF ttl > 0 THEN ttl - 1 ELSE 0

\* a minute passes: Redis drops every key whose time to live ran out
MinuteLater(c) ==
    [rating |-> [p \in Products |-> Lapsed(c.rating[p])],
     lists |-> [p \in Products |-> [g \in Pages |-> Lapsed(c.lists[p][g])]],
     keys |-> [p \in Products |-> IF c.keysTTL[p] > 1 THEN c.keys[p] ELSE {}],
     keysTTL |-> [p \in Products |-> Lapsed(c.keysTTL[p])]]

\* no call of InvalidateAllProductCache in progress; concurrent is history:
\* another cache command wrote keys of the product since the call began
NoInvalidation ==
    [pc |-> "idle", product |-> 0, keys |-> {}, result |-> "none", concurrent |-> FALSE]

\* a write of another client to the keys of p is concurrent to a call for p
Disturbed(p) ==
    IF invalidation.pc # "idle" /\ invalidation.product = p
    THEN [invalidation EXCEPT !.concurrent = TRUE]
    ELSE invalidation

CacheSetProductRating(p) ==
    /\ redis' = SetProductRating(redis, p)
    /\ invalidation' = Disturbed(p)

CacheSetReviewsList(p, g) ==
    /\ redis' = SetReviewsList(redis, p, g)
    /\ invalidation' = Disturbed(p)

CacheMinute ==
    /\ redis' = MinuteLater(redis)
    /\ UNCHANGED invalidation

\* InvalidateAllProductCache(ctx, p) is called
InvalidateBegin(p) ==
    /\ invalidation.pc = "idle"
    /\ invalidation' = [NoInvalidation EXCEPT !.pc = "rating", !.product = p]
    /\ UNCHANGED redis

InvalidationFailed == [invalidation EXCEPT !.pc = "returned", !.result = "error"]

\* c.InvalidateProductRating: an error other than redis.Nil is returned
InvalidateRating(ok) ==
    /\ invalidation.pc = "rating"
    /\ redis' = IF ok THEN InvalidateProductRating(redis, invalidation.product) ELSE redis
    /\ invalidation' = IF ok THEN [invalidation EXCEPT !.pc = "members"]
                             ELSE InvalidationFailed
    /\ failures' = IF ok THEN failures ELSE failures + 1

\* InvalidateReviewsList: SMembers; without members there is nothing to unlink
InvalidateMembers(ok) ==
    /\ invalidation.pc = "members"
    /\ invalidation' =
            IF ~ok THEN InvalidationFailed
            ELSE IF SMembers(redis, invalidation.product) = {}
            THEN [invalidation EXCEPT !.pc = "returned", !.result = "ok"]
            ELSE [invalidation EXCEPT !.pc = "unlink",
                                      !.keys = SMembers(redis, invalidation.product)]
    /\ failures' = IF ok THEN failures ELSE failures + 1
    /\ UNCHANGED redis

\* InvalidateReviewsList: Unlink(keys..., trackingKey)
InvalidateUnlink(ok) ==
    /\ invalidation.pc = "unlink"
    /\ redis' = IF ok THEN Unlinked(redis, invalidation.product, invalidation.keys) ELSE redis
    /\ invalidation' = IF ok THEN [invalidation EXCEPT !.pc = "returned", !.result = "ok"]
                             ELSE InvalidationFailed
    /\ failures' = IF ok THEN failures ELSE failures + 1

\* the caller goes on
InvalidateReturn ==
    /\ invalidation.pc = "returned"
    /\ invalidation' = NoInvalidation
    /\ UNCHANGED redis

InitCache ==
    /\ redis = EmptyCache
    /\ invalidation = NoInvalidation

InitService(R) ==
    /\ requests = [r \in R |-> IdleRequest]
    /\ now = 1
    /\ InitCache

InitBus == messages = <<>>

\* ValidReview with a fault: the names are not validated
ValidReviewNamesUnchecked(req) ==
    /\ req.product # NoProduct
    /\ req.fields.review_text \in 1..MaxTextLength
    /\ req.rating \in Ratings

\* validate.Struct(review): product id required, names min=1, max=100, text
\* min=1, max=5000, rating min=1, max=5
ValidReview(req) ==
    /\ req.product # NoProduct
    /\ req.fields.first_name \in 1..MaxNameLength
    /\ req.fields.last_name \in 1..MaxNameLength
    /\ req.fields.review_text \in 1..MaxTextLength
    /\ req.rating \in Ratings

Returned(req, result) == [req EXCEPT !.pc = "returned", !.result = result]

\* request slots are taken in order: slot r is used after slot r - 1
NextSlot(r) == IF r = 1 THEN TRUE ELSE requests[r - 1].pc # "idle"

\* a live review row with this id exists (ReviewRepository.GetByID)
ReviewFound(i) == i \in DOMAIN reviews /\ ~reviews[i].deleted

\* StoredProduct with a fault: an update keeps the product id it was called with
StoredProductUnlessSent(req, i) ==
    IF req.op = "update" /\ req.sent # NoProduct THEN req.sent ELSE reviews[i].product_id

\* review.ProductID = existingReview.ProductID in Update; Delete goes on
\* with the review that GetByID returned
StoredProduct(req, i) == reviews[i].product_id

\* The handler calls Create with (product, rating), Update with (review,
\* rating, fields; p is the product id of the struct it passes) or Delete
\* with (review), and the call makes its first statement.
\* Create: validation, then the EXISTS statement of ReviewRepository.Create.
\* Update and Delete: ReviewRepository.GetByID, which yields the product id.
SvcBegin(r, op, p, i, rating, fields) ==
    LET req == [IdleRequest EXCEPT !.op = op,
                                   !.sent = IF op = "delete" THEN NoProduct ELSE p,
                                   !.product = IF op = "create" THEN p ELSE NoProduct,
                                   !.review = IF op = "create" THEN 0 ELSE i,
                                   !.rating = IF op = "delete" THEN 0 ELSE rating,
                                   !.fields = IF op = "delete" THEN NoFields ELSE fields] IN
    /\ requests[r].pc = "idle"
    /\ NextSlot(r)
    /\ requests' = [requests EXCEPT ![r] =
            IF op = "create"
            THEN IF ~ValidReview(req) THEN Returned(req, "invalid_input")
                 ELSE IF ~ProductLive(p) THEN Returned(req, "not_found")
                 ELSE [req EXCEPT !.pc = "found"]
            ELSE IF ~ReviewFound(i) THEN Returned(req, "not_found")
                 ELSE [req EXCEPT !.pc = "found", !.product = StoredProduct(req, i)]]
    /\ UNCHANGED <<now, redis, invalidation, storeVars>>

Stored(req) == [req EXCEPT !.pc = "stored", !.log = Append(req.log, "store")]

\* the write statement: the INSERT of ReviewRepository.Create, validation and
\* ReviewRepository.Update, or ReviewRepository.Delete
SvcWrite(r) ==
    LET req == requests[r] IN
    /\ req.pc = "found"
    /\ CASE req.op = "create" ->
                /\ InsertReview(req.product, req.rating)
                /\ requests' = [requests EXCEPT
                                   ![r] = [Stored(req) EXCEPT !.review = Len(reviews) + 1]]
         [] req.op = "update" /\ ~ValidReview(req) ->
                /\ requests' = [requests EXCEPT ![r] = Returned(req, "invalid_input")]
                /\ UNCHANGED storeVars
         [] req.op = "update" /\ ValidReview(req) ->
                IF ReviewFound(req.review)
                THEN /\ UpdateReview(req.review, req.rating)
                     /\ requests' = [requests EXCEPT ![r] = Stored(req)]
                ELSE /\ requests' = [requests EXCEPT ![r] = Returned(req, "not_found")]
                     /\ UNCHANGED storeVars
         [] req.op = "delete" ->
                IF ReviewFound(req.review)
                THEN /\ SoftDeleteReview(req.review)
                     /\ requests' = [requests EXCEPT ![r] = Stored(req)]
                ELSE /\ requests' = [requests EXCEPT ![r] = Returned(req, "not_found")]
                     /\ UNCHANGED storeVars
    /\ UNCHANGED <<now, redis, invalidation>>

\* Invalidated with a fault: a failed invalidation fails the request
InvalidatedOrFailed(req, ok) ==
    IF ok
    THEN [req EXCEPT !.pc = "invalidated", !.cache = "ok",
                     !.log = Append(req.log, "invalidate")]
    ELSE [req EXCEPT !.pc = "returned", !.cache = "failed", !.result = "error",
                     !.log = Append(req.log, "invalidate")]

\* the request after cache.InvalidateAllProductCache returned: an error is
\* logged and the request goes on
Invalidated(req, ok) ==
    [req EXCEPT !.pc = "invalidated",
                !.cache = IF ok THEN "ok" ELSE "failed",
                !.log = Append(req.log, "invalidate")]

\* s.cache.InvalidateAllProductCache(ctx, review.ProductID)
SvcInvalidate(r, ok) ==
    /\ requests[r].pc = "stored"
    /\ requests' = [requests EXCEPT ![r] = Invalidated(requests[r], ok)]
    /\ redis' = IF ok THEN AllProductCacheInvalidated(redis, requests[r].product) ELSE redis
    /\ failures' = IF ok THEN failures ELSE failures + 1
    /\ UNCHANGED <<now, invalidation, storeVars>>

\* CanPublish with a fault: a write the store answered with not-found
\* publishes as well
CanPublishAfterFailure(req) ==
    \/ req.pc = "invalidated"
    \/ req.pc = "returned" /\ req.result = "not_found" /\ req.pub = "none"

\* CanPublish with a fault: the event may be published before the invalidation
CanPublishEarly(req) == req.pc \in {"stored", "invalidated"}

\* publishEvent is called after the invalidation returned
CanPublish(req) == req.pc = "invalidated"

\* publishEvent: the event takes time.Now() and the goroutine is started
SvcPublishEvent(r) ==
    /\ CanPublish(requests[r])
    /\ requests' = [requests EXCEPT ![r] = [requests[r] EXCEPT
                        !.pc = "spawned", !.pub = "spawned", !.timestamp = now,
                        !.log = Append(requests[r].log, "spawn")]]
    /\ now' = now + 1
    /\ UNCHANGED <<redis, invalidation, storeVars>>

\* return nil
SvcReturn(r) ==
    /\ requests[r].pc = "spawned"
    /\ requests' = [requests EXCEPT ![r] = Returned(requests[r], "ok")]
    /\ UNCHANGED <<now, redis, invalidation, storeVars>>

\* NewMessage with a fault: the event names another product
NewMessageOtherProduct(req) ==
    [product |-> (req.product % NumProducts) + 1, timestamp |-> req.timestamp,
     valid |-> TRUE, state |-> "pending", deliveries |-> 0, acks |-> 0, naks |-> 0,
     beforeShutdown |-> (restarts = <<>> /\ shutdownPc = "none")]

\* the event as the stream stores it: json.Marshal of the event decodes in
\* the worker (valid); deliveries, acks and naks count what the consumer
\* delivered and what the worker answered; beforeShutdown is history: the
\* worker had never been shut down when the stream stored it
NewMessage(req) ==
    [product |-> req.product, timestamp |-> req.timestamp,
     valid |-> TRUE, state |-> "pending", deliveries |-> 0, acks |-> 0, naks |-> 0,
     beforeShutdown |-> (restarts = <<>> /\ shutdownPc = "none")]

\* the goroutine of publishEvent: publisher.Publish, which returns once the
\* stream stored the message, or fails
PublishRun(r, ok) ==
    /\ requests[r].pub = "spawned"
    /\ requests' = [requests EXCEPT ![r] = [requests[r] EXCEPT
                        !.pub = IF ok THEN "published" ELSE "failed",
                        !.log = Append(requests[r].log, "publish")]]
    /\ messages' = IF ok THEN Append(messages, NewMessage(requests[r])) ELSE messages
    /\ failures' = IF ok THEN failures ELSE failures + 1
    /\ UNCHANGED <<now, redis, invalidation, storeVars>>

(***************************************************************************)
(* The worker's main: the fetch loop over the durable pull consumer, and   *)
(* the life of the worker process.                                         *)
(***************************************************************************)
\* a Duration as its bits: mant * 2^shift nanoseconds, less 2^DurationBits
\* when the sign bit is set
ZeroDuration == [mant |-> 0, shift |-> 0, negative |-> FALSE]

\* 2^i seconds
Seconds(i) == [mant |-> SecondMantissa, shift |-> SecondShift + i, negative |-> FALSE]

\* ShiftedSecond with a fault: the schedule starts at 2 s
ShiftedSecondFromTwo(i) == Seconds(i + 1)

\* time.Duration(1<<i) * time.Second in int64: the product is taken modulo
\* 2^DurationBits, so only the low bits of the mantissa that stay below bit
\* DurationBits remain, and the highest of them is the sign. (A mantissa of
\* fewer than 30 bits is cut only when fewer than 30 bits remain.)
ShiftedSecond(i) ==
    LET keep == DurationBits - SecondShift - i IN
    IF keep <= 0 THEN ZeroDuration
    ELSE IF keep > 30 THEN Seconds(i)
    ELSE [mant |-> SecondMantissa % (2 ^ keep),
          shift |-> SecondShift + i,
          negative |-> (SecondMantissa \div (2 ^ (keep - 1))) % 2 = 1]

\* the consumer before EnsureConsumer is called
NoConsumer == [pc |-> "none", maxDeliver |-> 0, i |-> 0, backoff |-> <<>>]

\* EnsureConsumer finds no consumer and calls generateExponentialBackoff(n):
\* nil for n <= 1, otherwise make([]time.Duration, n-1)
GenerateBegin(n) ==
    /\ consumer.pc = "none"
    /\ consumer' = [pc |-> "filling", maxDeliver |-> n, i |-> 0,
                    backoff |-> IF n <= 1 THEN <<>> ELSE [k \in 1..(n - 1) |-> ZeroDuration]]

\* for i := range backoff { backoff[i] = time.Duration(1<<i) * time.Second }
GenerateStep ==
    /\ consumer.pc = "filling"
    /\ consumer.i < Len(consumer.backoff)
    /\ consumer' = [consumer EXCEPT !.i = @ + 1,
                                    !.backoff[consumer.i + 1] = ShiftedSecond(consumer.i)]

\* return backoff; js.AddConsumer with MaxDeliver n and BackOff the list
AddConsumer ==
    /\ consumer.pc = "filling"
    /\ consumer.i = Len(consumer.backoff)
    /\ consumer' = [consumer EXCEPT !.pc = "added"]

\* the consumer that main's EnsureConsumer has added before the fetch loop
\* starts
AddedConsumer(n) ==
    [pc |-> "added", maxDeliver |-> n, i |-> IF n <= 1 THEN 0 ELSE n - 1,
     backoff |-> IF n <= 1 THEN <<>> ELSE [k \in 1..(n - 1) |-> ShiftedSecond(k - 1)]]

InitMain ==
    /\ consumer = AddedConsumer(MaxDeliveryAttempts)
    /\ batch = <<>>
    /\ loopPc = "fetch"
    /\ restarts = <<>>
    /\ failures = 0

PendingMessages == {m \in DOMAIN messages : messages[m].state = "pending"}

RECURSIVE InOrder(_)
\* the elements of a set of message ids in stream order
InOrder(S) ==
    IF S = {} THEN <<>>
    ELSE LET m == CHOOSE x \in S : \A y \in S : x <= y IN <<m>> \o InOrder(S \ {m})

Take(s, n) == SubSeq(s, 1, IF Len(s) < n THEN Len(s) ELSE n)

\* sub.Fetch(10, ...): up to FetchBatch pending messages are delivered
LoopFetch ==
    /\ proc = "up"
    /\ loopPc = "fetch"
    /\ PendingMessages # {}
    /\ LET got == Take(InOrder(PendingMessages), FetchBatch)
           ids == {got[k] : k \in DOMAIN got} IN
        /\ batch' = got
        /\ messages' = [m \in DOMAIN messages |->
                            IF m \in ids
                            THEN [messages[m] EXCEPT !.state = "inflight",
                                                     !.deliveries = messages[m].deliveries + 1]
                            ELSE messages[m]]
    /\ loopPc' = "handle"
    /\ UNCHANGED restarts

\* Decodes with a fault: every body is rejected
DecodesNever(msg) == FALSE

\* Decodes with a fault: an event of a kind the service does not write is
\* rejected
DecodesKnownKinds(msg) == msg.valid /\ msg.kind # "unknown"

\* json.Unmarshal(data, &event) returns no error
Decodes(msg) == msg.valid

\* ratingWorker.HandleEvent(msg.Data): when the event decodes, scheduleUpdate
\* runs and HandleEvent returns nil; otherwise it returns the decode error
LoopHandle ==
    /\ loopPc = "handle"
    /\ IF Decodes(messages[Head(batch)])
       THEN /\ ScheduleUpdate(messages[Head(batch)].product, messages[Head(batch)].timestamp)
            /\ loopPc' = "ack"
       ELSE /\ proc = "up"
            /\ loopPc' = "nak"
            /\ UNCHANGED workerVars
    /\ UNCHANGED <<batch, restarts, messages>>

\* Redelivered with a fault: the consumer has no MaxDeliver
RedeliveredAlways(msg) == [msg EXCEPT !.state = "pending"]

\* the consumer's answer to a delivery that was not acknowledged: the
\* message is delivered again, until MaxDeliver deliveries were made
Redelivered(msg) ==
    [msg EXCEPT !.state = IF msg.deliveries < MaxDeliveryAttempts THEN "pending" ELSE "dead"]

\* the loop goes on to the next message of the batch, or to the next Fetch
LoopAdvance ==
    /\ batch' = Tail(batch)
    /\ loopPc' = IF Tail(batch) = <<>> THEN "fetch" ELSE "handle"
    /\ UNCHANGED restarts

\* msg.Ack(): the work-queue stream deletes the message; an error of Ack is
\* only logged, the stream then still waits for the acknowledgement
LoopAck(ok) ==
    /\ proc = "up"
    /\ loopPc = "ack"
    /\ messages' = [messages EXCEPT ![Head(batch)] =
                        [@ EXCEPT !.acks = @ + 1,
                                  !.state = IF ok THEN "acked" ELSE "inflight"]]
    /\ failures' = IF ok THEN failures ELSE failures + 1
    /\ LoopAdvance

\* msg.Nak(): the consumer is told to deliver the message again; an error of
\* Nak is only logged
LoopNak(ok) ==
    /\ proc = "up"
    /\ loopPc = "nak"
    /\ messages' = [messages EXCEPT ![Head(batch)] =
                        IF ok THEN Redelivered([@ EXCEPT !.naks = @ + 1])
                        ELSE [@ EXCEPT !.naks = @ + 1]]
    /\ failures' = IF ok THEN failures ELSE failures + 1
    /\ LoopAdvance

\* main returns after Shutdown returned: the process exits
WorkerExit ==
    /\ proc = "up"
    /\ shutdownPc \in {"returned", "deadline"}
    /\ proc' = "exited"
    /\ UNCHANGED <<pendingUpdates, timers, wg, shutdownPc, afterFire>>

Held(m) == proc = "up" /\ \E k \in DOMAIN batch : batch[k] = m

\* AckWait expired for a message whose consumer is gone: it is delivered
\* again, or discarded after MaxDeliveryAttempts deliveries
BusRedeliver(m) ==
    /\ messages[m].state = "inflight"
    /\ ~Held(m)
    /\ messages' = [messages EXCEPT ![m] = Redelivered(messages[m])]

\* the worker process is started again: a new RatingWorker, a new fetch loop
WorkerRestart ==
    /\ proc # "up"
    /\ Len(restarts) < MaxRestarts
    /\ restarts' = Append(restarts, IF proc = "panicked" THEN "panicked" ELSE shutdownPc)
    /\ timers' = <<>>
    /\ afterFire' = [p \in Products |-> FALSE]
    /\ pendingUpdates' = [p \in Products |-> NoPending]
    /\ wg' = 0
    /\ shutdownPc' = "none"
    /\ proc' = "up"
    /\ batch' = <<>>
    /\ loopPc' = "fetch"

(***************************************************************************)
(* Specification of the calculator over review tables drawn from a bounded *)
(* set: every table of at most MaxCalcReviews rows.                        *)
(***************************************************************************)
ReviewRows == [product_id : Products, rating : SampleRatings, deleted : BOOLEAN]

\* The calculator reads the table as a set of rows: tables that differ only in
\* the order of their rows are explored once, in the order of RowRank.
RowRank(row) ==
    (row.product_id * (MaxRating + 1) + row.rating) * 2 + (IF row.deleted THEN 1 ELSE 0)

ReviewTables ==
    {t \in UNION {[1..n -> ReviewRows] : n \in 0..MaxCalcReviews} :
        \A i \in 1..(Len(t) - 1) : RowRank(t[i]) <= RowRank(t[i + 1])}

RECURSIVE RecomputesDone(_)
RecomputesDone(S) ==
    IF S = {} THEN 0
    ELSE LET p == CHOOSE x \in S : TRUE
         IN  (products[p].version - InitialVersion) + RecomputesDone(S \ {p})

InitCalc ==
    /\ reviews \in ReviewTables
    /\ products \in [Products -> {NewProduct(CreatedName),
                                  [NewProduct(CreatedName) EXCEPT !.state = "deleted"]}]
    /\ recomputed = [p \in Products |-> FALSE]
    /\ InitEditors
    /\ InitWorker
    /\ InitService({})
    /\ InitBus
    /\ InitMain

CalcRecompute ==
    \E p \in Products :
        /\ RecomputesDone(Products) < MaxRecomputes
        /\ CalculateAndUpdate(p)
        /\ UNCHANGED <<editVars, lockVars, streamVars, workerVars, pipeVars, faultVars>>

NextCalc == CalcRecompute

SpecCalc == InitCalc /\ [][NextCalc]_vars

(***************************************************************************)
(* Specification of the catalog store: product edits under optimistic      *)
(* concurrency, next to recomputes and product deletes.                    *)
(***************************************************************************)
InitStore ==
    /\ products = [p \in Products |-> MissingProduct]
    /\ reviews = <<>>
    /\ recomputed = [p \in Products |-> FALSE]
    /\ InitEditors
    /\ InitWorker
    /\ InitService({})
    /\ InitBus
    /\ InitMain

StoreProducts == 1..NumStoreProducts

\* the handlers that edit products at the same time
ConcurrentEditors == {1, 2}

StoreProductCreate ==
    \E p \in StoreProducts :
        ProductCreate(p, CreatedName) /\ UNCHANGED <<editVars, lockVars, streamVars, workerVars, pipeVars, faultVars>>

StoreProductDelete ==
    \E p \in StoreProducts :
        ProductDelete(p) /\ UNCHANGED <<editVars, lockVars, streamVars, workerVars, pipeVars, faultVars>>

StoreEditorRead ==
    \E e \in ConcurrentEditors, p \in StoreProducts :
        EditorRead(e, p, EditedName) /\ UNCHANGED <<lockVars, streamVars, workerVars, pipeVars, faultVars>>

StoreEditorUpdate ==
    \E e \in ConcurrentEditors :
        /\ products[editors[e].product].version < MaxVersion
        /\ EditorUpdate(e)
        /\ UNCHANGED <<lockVars, streamVars, workerVars, pipeVars, faultVars>>

StoreEditorReturn ==
    \E e \in ConcurrentEditors : EditorReturn(e) /\ UNCHANGED <<lockVars, streamVars, workerVars, pipeVars, faultVars>>

StoreRecompute ==
    \E p \in StoreProducts :
        /\ products[p].version < MaxVersion
        /\ CalculateAndUpdate(p)
        /\ UNCHANGED <<editVars, lockVars, streamVars, workerVars, pipeVars, faultVars>>

NextStore ==
    \/ StoreProductCreate
    \/ StoreProductDelete
    \/ StoreEditorRead
    \/ StoreEditorUpdate
    \/ StoreEditorReturn
    \/ StoreRecompute

SpecStore == InitStore /\ [][NextStore]_vars

(***************************************************************************)
(* Specification of the worker alone, as its unit tests drive it: events   *)
(* are handed to scheduleUpdate directly, over a store of live products    *)
(* without reviews.                                                        *)
(***************************************************************************)
Timestamps == 1..NumTimestamps

InitWorkerSpec ==
    /\ products = [p \in Products |-> NewProduct(CreatedName)]
    /\ reviews = <<>>
    /\ recomputed = [p \in Products |-> FALSE]
    /\ InitEditors
    /\ InitWorker
    /\ InitService({})
    /\ InitBus
    /\ InitMain

\* the products the events are about: two, as in the worker's tests
ScheduledProducts == {1, 2}

WorkerSchedule ==
    \E p \in ScheduledProducts, ts \in Timestamps :
        /\ Len(timers) < MaxTimers
        /\ ScheduleUpdate(p, ts)
        /\ UNCHANGED <<storeVars, editVars, lockVars, streamVars, pipeVars, faultVars>>

WorkerTimerFire ==
    \E t \in DOMAIN timers : TimerFire(t) /\ UNCHANGED <<storeVars, editVars, lockVars, streamVars, pipeVars, faultVars>>

WorkerProcessStart ==
    \E t \in DOMAIN timers : ProcessStart(t) /\ UNCHANGED <<storeVars, editVars, lockVars, streamVars, pipeVars, faultVars>>

WorkerCalcAttempt ==
    \E t \in DOMAIN timers, ok \in BOOLEAN : CalcAttempt(t, ok) /\ UNCHANGED <<editVars, lockVars, streamVars, pipeVars>>

WorkerBackoffElapsed ==
    \E t \in DOMAIN timers : BackoffElapsed(t) /\ UNCHANGED <<storeVars, editVars, lockVars, streamVars, pipeVars, faultVars>>

WorkerBackoffCancelled ==
    \E t \in DOMAIN timers : BackoffCancelled(t) /\ UNCHANGED <<storeVars, editVars, lockVars, streamVars, pipeVars, faultVars>>

WorkerShutdownBegin == ShutdownBegin /\ UNCHANGED <<storeVars, editVars, lockVars, streamVars, pipeVars, faultVars>>

WorkerShutdownCancel == ShutdownCancel /\ UNCHANGED <<storeVars, editVars, lockVars, streamVars, pipeVars, faultVars>>

WorkerShutdownClear == ShutdownClear /\ UNCHANGED <<storeVars, editVars, lockVars, streamVars, pipeVars, faultVars>>

WorkerShutdownDone == ShutdownDone /\ UNCHANGED <<storeVars, editVars, lockVars, streamVars, pipeVars, faultVars>>

WorkerShutdownDeadline == ShutdownDeadline /\ UNCHANGED <<storeVars, editVars, lockVars, streamVars, pipeVars, faultVars>>

NextWorker ==
    \/ WorkerSchedule
    \/ WorkerTimerFire
    \/ WorkerProcessStart
    \/ WorkerCalcAttempt
    \/ WorkerBackoffElapsed
    \/ WorkerBackoffCancelled
    \/ WorkerShutdownBegin
    \/ WorkerShutdownCancel
    \/ WorkerShutdownClear
    \/ WorkerShutdownDone
    \/ WorkerShutdownDeadline

SpecWorker == InitWorkerSpec /\ [][NextWorker]_vars

(***************************************************************************)
(* Specification of the review write service over the store, the cache and *)
(* the bus: NumRequests calls with every operation and outcome, over a     *)
(* store that holds one review already, while the product may be           *)
(* soft-deleted.                                                           *)
(***************************************************************************)
ServiceRequests == 1..NumRequests

\* review ids a caller sends: the stored review's, those the calls create,
\* and one that no review has
SentReviews == 1..(NumRequests + 2)

\* ratings a caller sends: one below the valid range and the two ends of it
SentRatings == {MinRating - 1, MinRating, MaxRating}

\* string lengths a caller sends: valid ones, an empty first name, a last
\* name and a text one character too long
SentFields ==
    {ValidFields,
     [ValidFields EXCEPT !.first_name = 0],
     [ValidFields EXCEPT !.last_name = MaxNameLength + 1],
     [ValidFields EXCEPT !.review_text = MaxTextLength + 1]}

\* the product id an update is called with: the id of a product that is not
\* the stored review's
SentProducts == {NumProducts}

InitServiceSpec ==
    /\ products = [p \in Products |-> IF p \in StoreProducts
                                      THEN NewProduct(CreatedName) ELSE MissingProduct]
    /\ reviews = <<ReviewRow(1, MaxRating, FALSE)>>
    /\ recomputed = [p \in Products |-> FALSE]
    /\ InitEditors
    /\ InitWorker
    /\ InitService(ServiceRequests)
    /\ InitBus
    /\ InitMain

ServiceCreate ==
    \E r \in ServiceRequests, p \in Products \cup {NoProduct},
       rating \in SentRatings, fields \in SentFields :
        /\ SvcBegin(r, "create", p, 0, rating, fields)
        /\ UNCHANGED <<editVars, lockVars, streamVars, workerVars, busVars, mainVars, faultVars>>

ServiceUpdate ==
    \E r \in ServiceRequests, p \in SentProducts, i \in SentReviews,
       rating \in SentRatings, fields \in SentFields :
        /\ SvcBegin(r, "update", p, i, rating, fields)
        /\ UNCHANGED <<editVars, lockVars, streamVars, workerVars, busVars, mainVars, faultVars>>

ServiceDelete ==
    \E r \in ServiceRequests, i \in SentReviews :
        /\ SvcBegin(r, "delete", NoProduct, i, 0, NoFields)
        /\ UNCHANGED <<editVars, lockVars, streamVars, workerVars, busVars, mainVars, faultVars>>

ServiceWrite ==
    \E r \in ServiceRequests :
        SvcWrite(r) /\ UNCHANGED <<editVars, lockVars, streamVars, workerVars, busVars, mainVars, faultVars>>

ServiceInvalidate ==
    \E r \in ServiceRequests, ok \in BOOLEAN :
        SvcInvalidate(r, ok) /\ UNCHANGED <<editVars, lockVars, streamVars, workerVars, busVars, mainVars>>

ServicePublishEvent ==
    \E r \in ServiceRequests :
        SvcPublishEvent(r) /\ UNCHANGED <<editVars, lockVars, streamVars, workerVars, busVars, mainVars, faultVars>>

ServiceReturn ==
    \E r \in ServiceRequests :
        SvcReturn(r) /\ UNCHANGED <<editVars, lockVars, streamVars, workerVars, busVars, mainVars, faultVars>>

ServicePublishRun ==
    \E r \in ServiceRequests, ok \in BOOLEAN :
        PublishRun(r, ok) /\ UNCHANGED <<editVars, lockVars, streamVars, workerVars, mainVars>>

ServiceProductDelete ==
    \E p \in StoreProducts :
        ProductDelete(p) /\ UNCHANGED <<editVars, lockVars, streamVars, workerVars, pipeVars, faultVars>>

NextService ==
    \/ ServiceCreate
    \/ ServiceUpdate
    \/ ServiceDelete
    \/ ServiceWrite
    \/ ServiceInvalidate
    \/ ServicePublishEvent
    \/ ServiceReturn
    \/ ServicePublishRun
    \/ ServiceProductDelete

SpecService == InitServiceSpec /\ [][NextService]_vars

(***************************************************************************)
(* The pipeline: writers call the service, the bus carries the events, the *)
(* worker process fetches, debounces and recomputes. Spec is the whole     *)
(* pipeline with one writer, where the worker is also shut down and        *)
(* started again; SpecRun is the pipeline of two concurrent writers while  *)
(* the worker process stays up.                                            *)
(***************************************************************************)
SingleWriter == {1}

ConcurrentWriters == {1, 2}

Writers == DOMAIN requests

WrittenRatings == {MinRating, MaxRating}

\* the pipeline explores runs with at most MaxFailures failures of the cache,
\* the bus and the store
MayFail(ok) == ok \/ failures < MaxFailures

InitPipeline(W) ==
    /\ products = [p \in Products |-> IF p \in StoreProducts
                                      THEN NewProduct(CreatedName) ELSE MissingProduct]
    /\ reviews = <<>>
    /\ recomputed = [p \in Products |-> FALSE]
    /\ InitEditors
    /\ InitWorker
    /\ InitService(W)
    /\ InitBus
    /\ InitMain

Init == InitPipeline(SingleWriter)

InitRun == InitPipeline(ConcurrentWriters)

WriterCreate ==
    \E r \in Writers, p \in StoreProducts, rating \in WrittenRatings :
        /\ SvcBegin(r, "create", p, 0, rating, ValidFields)
        /\ UNCHANGED <<editVars, lockVars, streamVars, workerVars, busVars, mainVars, faultVars>>

WriterUpdate ==
    \E r \in Writers, i \in Writers, rating \in WrittenRatings :
        /\ SvcBegin(r, "update", NoProduct, i, rating, ValidFields)
        /\ UNCHANGED <<editVars, lockVars, streamVars, workerVars, busVars, mainVars, faultVars>>

WriterDelete ==
    \E r \in Writers, i \in Writers :
        /\ SvcBegin(r, "delete", NoProduct, i, 0, NoFields)
        /\ UNCHANGED <<editVars, lockVars, streamVars, workerVars, busVars, mainVars, faultVars>>

WriterWrite ==
    \E r \in Writers : SvcWrite(r) /\ UNCHANGED <<editVars, lockVars, streamVars, workerVars, busVars, mainVars, faultVars>>

WriterInvalidate ==
    \E r \in Writers, ok \in BOOLEAN :
        MayFail(ok) /\ SvcInvalidate(r, ok) /\ UNCHANGED <<editVars, lockVars, streamVars, workerVars, busVars, mainVars>>

WriterPublishEvent ==
    \E r \in Writers : SvcPublishEvent(r) /\ UNCHANGED <<editVars, lockVars, streamVars, workerVars, busVars, mainVars, faultVars>>

WriterReturn ==
    \E r \in Writers : SvcReturn(r) /\ UNCHANGED <<editVars, lockVars, streamVars, workerVars, busVars, mainVars, faultVars>>

WriterPublishRun ==
    \E r \in Writers, ok \in BOOLEAN :
        MayFail(ok) /\ PublishRun(r, ok) /\ UNCHANGED <<editVars, lockVars, streamVars, workerVars, mainVars>>

MainFetch == LoopFetch /\ UNCHANGED <<storeVars, editVars, lockVars, streamVars, workerVars, svcVars, faultVars>>

MainHandle == LoopHandle /\ UNCHANGED <<storeVars, editVars, lockVars, streamVars, svcVars, faultVars>>

MainAck ==
    \E ok \in BOOLEAN :
        MayFail(ok) /\ LoopAck(ok) /\ UNCHANGED <<storeVars, editVars, lockVars, streamVars, workerVars, svcVars>>

MainNak ==
    \E ok \in BOOLEAN :
        MayFail(ok) /\ LoopNak(ok) /\ UNCHANGED <<storeVars, editVars, lockVars, streamVars, workerVars, svcVars>>

MainTimerFire ==
    \E t \in DOMAIN timers : TimerFire(t) /\ UNCHANGED <<storeVars, editVars, lockVars, streamVars, pipeVars, faultVars>>

MainProcessStart ==
    \E t \in DOMAIN timers : ProcessStart(t) /\ UNCHANGED <<storeVars, editVars, lockVars, streamVars, pipeVars, faultVars>>

MainCalcAttempt ==
    \E t \in DOMAIN timers, ok \in BOOLEAN :
        (MayFail(ok) \/ CtxCancelled) /\ CalcAttempt(t, ok) /\ UNCHANGED <<editVars, lockVars, streamVars, pipeVars>>

MainBackoffElapsed ==
    \E t \in DOMAIN timers : BackoffElapsed(t) /\ UNCHANGED <<storeVars, editVars, lockVars, streamVars, pipeVars, faultVars>>

MainBackoffCancelled ==
    \E t \in DOMAIN timers : BackoffCancelled(t) /\ UNCHANGED <<storeVars, editVars, lockVars, streamVars, pipeVars, faultVars>>

\* SIGINT or SIGTERM: main calls Shutdown
MainShutdownBegin == Len(restarts) < MaxRestarts /\ ShutdownBegin /\ UNCHANGED <<storeVars, editVars, lockVars, streamVars, pipeVars, faultVars>>

MainShutdownCancel == ShutdownCancel /\ UNCHANGED <<storeVars, editVars, lockVars, streamVars, pipeVars, faultVars>>

MainShutdownClear == ShutdownClear /\ UNCHANGED <<storeVars, editVars, lockVars, streamVars, pipeVars, faultVars>>

MainShutdownDone == ShutdownDone /\ UNCHANGED <<storeVars, editVars, lockVars, streamVars, pipeVars, faultVars>>

MainShutdownDeadline == ShutdownDeadline /\ UNCHANGED <<storeVars, editVars, lockVars, streamVars, pipeVars, faultVars>>

MainExit == WorkerExit /\ UNCHANGED <<storeVars, editVars, lockVars, streamVars, pipeVars, faultVars>>

MainRestart == WorkerRestart /\ UNCHANGED <<storeVars, editVars, lockVars, streamVars, svcVars, busVars, faultVars>>

Redeliver ==
    \E m \in DOMAIN messages :
        BusRedeliver(m) /\ UNCHANGED <<storeVars, editVars, lockVars, streamVars, workerVars, svcVars, mainVars, faultVars>>

\* the steps that follow from a call of the service or from a message
Progress ==
    \/ WriterWrite
    \/ WriterInvalidate
    \/ WriterPublishEvent
    \/ WriterReturn
    \/ WriterPublishRun
    \/ MainFetch
    \/ MainHandle
    \/ MainAck
    \/ MainTimerFire
    \/ MainProcessStart
    \/ MainCalcAttempt
    \/ MainBackoffElapsed

NextRun ==
    \/ WriterCreate
    \/ WriterUpdate
    \/ WriterDelete
    \/ Progress

SpecRun == InitRun /\ [][NextRun]_vars

\* every goroutine that can take a step is eventually scheduled
FairRun == SpecRun /\ WF_vars(Progress)

Next ==
    \/ NextRun
    \/ MainBackoffCancelled
    \/ MainShutdownBegin
    \/ MainShutdownCancel
    \/ MainShutdownClear
    \/ MainShutdownDone
    \/ MainShutdownDeadline
    \/ MainExit
    \/ MainRestart
    \/ Redeliver

Spec == Init /\ [][Next]_vars

(***************************************************************************)
(* Specification of the consumer side alone: the stream holds NumMessages  *)
(* messages whose bodies are drawn from a bounded set, with bodies that do *)
(* not decode; the fetch loop, the debouncer and the recomputes run, Ack,  *)
(* Nak and the store may fail.                                             *)
(***************************************************************************)
\* a body that is not the JSON of a ReviewEvent
MalformedBody == [product |-> 0, timestamp |-> 0, valid |-> FALSE]

\* the products the stored events are about
EventProducts == {1}

\* the timestamps they carry: events of one instant
EventTimestamps == {1}

Bodies ==
    {[product |-> p, timestamp |-> ts, valid |-> TRUE] : p \in EventProducts, ts \in EventTimestamps}
        \cup {MalformedBody}

StoredMessage(body) ==
    [product |-> body.product, timestamp |-> body.timestamp, valid |-> body.valid,
     state |-> "pending", deliveries |-> 0, acks |-> 0, naks |-> 0,
     beforeShutdown |-> TRUE]

\* the state of an event's product when the worker comes to it: live,
\* never created, or soft-deleted since the event was published
DeletedProduct == [NewProduct(CreatedName) EXCEPT !.state = "deleted"]

EventProductRows == {NewProduct(CreatedName), MissingProduct, DeletedProduct}

InitConsume ==
    /\ \E row \in EventProductRows :
            products = [p \in Products |->
                            IF p \in EventProducts THEN row ELSE NewProduct(CreatedName)]
    /\ reviews = <<>>
    /\ recomputed = [p \in Products |-> FALSE]
    /\ InitEditors
    /\ InitWorker
    /\ InitService({})
    /\ InitMain
    /\ \E bodies \in [1..NumMessages -> Bodies] :
            messages = [m \in 1..NumMessages |-> StoredMessage(bodies[m])]

NextConsume ==
    \/ MainFetch
    \/ MainHandle
    \/ MainAck
    \/ MainNak
    \/ MainTimerFire
    \/ MainProcessStart
    \/ MainCalcAttempt
    \/ MainBackoffElapsed
    \/ Redeliver

SpecConsume == InitConsume /\ [][NextConsume]_vars

(***************************************************************************)
(* Specification of the debouncer under the events of one product that a   *)
(* stream holds, with timestamps in any order and equal ones among them;   *)
(* recomputes are followed up to their calculator call.                    *)
(***************************************************************************)
InitDebounce ==
    /\ products = [p \in Products |-> NewProduct(CreatedName)]
    /\ reviews = <<>>
    /\ recomputed = [p \in Products |-> FALSE]
    /\ InitEditors
    /\ InitWorker
    /\ InitService({})
    /\ InitMain
    /\ \E stamps \in [1..NumMessages -> Timestamps] :
            messages = [m \in 1..NumMessages |->
                            StoredMessage([product |-> 1, timestamp |-> stamps[m], valid |-> TRUE])]

NextDebounce ==
    \/ MainFetch
    \/ MainHandle
    \/ MainAck
    \/ MainTimerFire
    \/ MainProcessStart

SpecDebounce == InitDebounce /\ [][NextDebounce]_vars

(***************************************************************************)
(* Specification of the worker under events that differ only in what the   *)
(* worker's ReviewEvent has beside product id and timestamp: the string    *)
(* member "type", and the review snapshot, for which the struct has no     *)
(* field.                                                                  *)
(***************************************************************************)
\* the kinds: two that the service writes and one that it does not
EventKinds == {"review.created", "review.deleted", "unknown"}

\* the snapshot: null, or a review with the lowest rating
Snapshots == {0, MinRating}

KindBodies ==
    {[product |-> p, timestamp |-> ts, valid |-> TRUE, kind |-> k, snapshot |-> s] :
        p \in EventProducts, ts \in EventTimestamps, k \in EventKinds, s \in Snapshots}

KindMessage(body) ==
    [product |-> body.product, timestamp |-> body.timestamp, valid |-> body.valid,
     kind |-> body.kind, snapshot |-> body.snapshot,
     state |-> "pending", deliveries |-> 0, acks |-> 0, naks |-> 0,
     beforeShutdown |-> TRUE]

\* the stream holds two events, to be compared
KindSlots == {1, 2}

InitKinds ==
    /\ products = [p \in Products |-> NewProduct(CreatedName)]
    /\ reviews = <<ReviewRow(1, MaxRating, FALSE)>>
    /\ recomputed = [p \in Products |-> FALSE]
    /\ InitEditors
    /\ InitWorker
    /\ InitService({})
    /\ InitMain
    /\ \E bodies \in [KindSlots -> KindBodies] :
            messages = [m \in KindSlots |-> KindMessage(bodies[m])]

NextKinds ==
    \/ MainFetch
    \/ MainHandle
    \/ MainAck
    \/ MainTimerFire
    \/ MainProcessStart
    \/ MainCalcAttempt
    \/ MainBackoffElapsed

SpecKinds == InitKinds /\ [][NextKinds]_vars

(***************************************************************************)
(* Specification of EnsureConsumer for a stream without a consumer, under  *)
(* every max-deliver up to MaxDeliverBound, among them 0 and -1            *)
(* (unlimited), with the loop of generateExponentialBackoff step by step.  *)
(***************************************************************************)
MaxDelivers == (0 - 1)..MaxDeliverBound

InitStream ==
    /\ products = [p \in Products |-> MissingProduct]
    /\ reviews = <<>>
    /\ recomputed = [p \in Products |-> FALSE]
    /\ InitEditors
    /\ InitWorker
    /\ InitService({})
    /\ InitBus
    /\ batch = <<>>
    /\ loopPc = "fetch"
    /\ restarts = <<>>
    /\ failures = 0
    /\ consumer = NoConsumer

streamFrame == <<storeVars, editVars, lockVars, workerVars, pipeVars, faultVars>>

StreamGenerateBegin == \E n \in MaxDelivers : GenerateBegin(n) /\ UNCHANGED streamFrame

StreamGenerateStep == GenerateStep /\ UNCHANGED streamFrame

StreamAddConsumer == AddConsumer /\ UNCHANGED streamFrame

NextStream ==
    \/ StreamGenerateBegin
    \/ StreamGenerateStep
    \/ StreamAddConsumer

SpecStream == InitStream /\ [][NextStream]_vars

(***************************************************************************)
(* Specification of the worker with its mutex: taking the mutex is a step  *)
(* of its own, so that the goroutines of scheduleUpdate, processUpdate and *)
(* Shutdown wait for each other while timers fire and recomputes run.      *)
(***************************************************************************)
mutexFrame == <<storeVars, editVars, streamVars, pipeVars, faultVars>>

\* the products whose events arrive
MutexProducts == {1}

MutexScheduleLock ==
    \E p \in MutexProducts, ts \in Timestamps :
        /\ Len(timers) < MaxTimers
        /\ Lock(ScheduleHolder(p, ts))
        /\ UNCHANGED <<workerVars, mutexFrame>>

MutexSchedule == ScheduleLocked /\ UNCHANGED mutexFrame

MutexProcessLock ==
    \E t \in DOMAIN timers :
        /\ timers[t].state = "fired"
        /\ Lock(ProcessHolder(t))
        /\ UNCHANGED <<workerVars, mutexFrame>>

MutexProcess == ProcessLocked /\ UNCHANGED mutexFrame

MutexShutdownLock ==
    /\ shutdownPc = "cancelled"
    /\ Lock(ShutdownHolder)
    /\ UNCHANGED <<workerVars, mutexFrame>>

MutexShutdown == ShutdownLocked /\ UNCHANGED mutexFrame

NextMutex ==
    \/ MutexScheduleLock
    \/ MutexSchedule
    \/ MutexProcessLock
    \/ MutexProcess
    \/ MutexShutdownLock
    \/ MutexShutdown
    \/ WorkerTimerFire
    \/ WorkerCalcAttempt
    \/ WorkerBackoffElapsed
    \/ WorkerBackoffCancelled
    \/ WorkerShutdownBegin
    \/ WorkerShutdownCancel
    \/ WorkerShutdownDone
    \/ WorkerShutdownDeadline

SpecMutex == InitWorkerSpec /\ [][NextMutex]_vars

(***************************************************************************)
(* Specification of the cache alone: clients fill the keys of a product,   *)
(* minutes pass, and InvalidateAllProductCache is called; its commands may *)
(* fail and other clients' commands come between them.                     *)
(***************************************************************************)
\* the products whose keys are written and invalidated
CachedProducts == {1}

InitCacheSpec ==
    /\ products = [p \in Products |-> NewProduct(CreatedName)]
    /\ reviews = <<>>
    /\ recomputed = [p \in Products |-> FALSE]
    /\ InitEditors
    /\ InitWorker
    /\ InitService({})
    /\ InitBus
    /\ InitMain

cacheFrame == <<storeVars, editVars, lockVars, streamVars, workerVars, requests, now, busVars, mainVars>>

CacheRatingSet ==
    \E p \in CachedProducts :
        CacheSetProductRating(p) /\ UNCHANGED <<cacheFrame, faultVars>>

CacheReviewsListSet ==
    \E p \in CachedProducts, g \in Pages :
        CacheSetReviewsList(p, g) /\ UNCHANGED <<cacheFrame, faultVars>>

CacheMinutePasses == CacheMinute /\ UNCHANGED <<cacheFrame, faultVars>>

CacheInvalidateBegin ==
    \E p \in CachedProducts : InvalidateBegin(p) /\ UNCHANGED <<cacheFrame, faultVars>>

CacheInvalidateRating ==
    \E ok \in BOOLEAN : MayFail(ok) /\ InvalidateRating(ok) /\ UNCHANGED cacheFrame

CacheInvalidateMembers ==
    \E ok \in BOOLEAN : MayFail(ok) /\ InvalidateMembers(ok) /\ UNCHANGED cacheFrame

CacheInvalidateUnlink ==
    \E ok \in BOOLEAN : MayFail(ok) /\ InvalidateUnlink(ok) /\ UNCHANGED cacheFrame

CacheInvalidateReturn == InvalidateReturn /\ UNCHANGED <<cacheFrame, faultVars>>

NextCache ==
    \/ CacheRatingSet
    \/ CacheReviewsListSet
    \/ CacheMinutePasses
    \/ CacheInvalidateBegin
    \/ CacheInvalidateRating
    \/ CacheInvalidateMembers
    \/ CacheInvalidateUnlink
    \/ CacheInvalidateReturn

SpecCache == InitCacheSpec /\ [][NextCache]_vars

(***************************************************************************)
(* Specification of the debouncer under events of many products: one event *)
(* for each of MaxConcurrentRecomputes + 1 products, each recompute        *)
(* followed up to its calculator call, whose statement has not yet         *)
(* returned.                                                               *)
(***************************************************************************)
FanoutProducts == 1..(MaxConcurrentRecomputes + 1)

InitFanout ==
    /\ products = [p \in FanoutProducts |-> NewProduct(CreatedName)]
    /\ reviews = <<>>
    /\ recomputed = [p \in FanoutProducts |-> FALSE]
    /\ InitEditors
    /\ mu = Unlocked
    /\ pendingUpdates = [p \in FanoutProducts |-> NoPending]
    /\ timers = <<>>
    /\ wg = 0
    /\ shutdownPc = "none"
    /\ proc = "up"
    /\ afterFire = [p \in FanoutProducts |-> FALSE]
    /\ InitService({})
    /\ InitBus
    /\ InitMain

\* the events arrive in the order of the product ids
FanoutSchedule ==
    \E p \in FanoutProducts :
        /\ p = Len(timers) + 1
        /\ ScheduleUpdate(p, 1)
        /\ UNCHANGED <<storeVars, editVars, lockVars, streamVars, pipeVars, faultVars>>

NextFanout ==
    \/ FanoutSchedule
    \/ MainTimerFire
    \/ MainProcessStart

SpecFanout == InitFanout /\ [][NextFanout]_vars

(***************************************************************************)
(* Properties.                                                             *)
(***************************************************************************)
Abs(x) == IF x < 0 THEN 0 - x ELSE x

\* the sum of the ratings of the live reviews of p, rating by rating
LiveRatingSum(p) ==
    LET n(v) == Cardinality({i \in LiveReviews(reviews, p) : reviews[i].rating = v})
    IN  n(1) + 2 * n(2) + 3 * n(3) + 4 * n(4) + 5 * n(5)

LiveRatingCount(p) == Cardinality(LiveReviews(reviews, p))

\* r (in tenths) is the mean of the live ratings of p rounded to one decimal:
\* no tenth is nearer to the mean; 0 when p has no live review
IsRoundedMean(p, r) ==
    IF LiveRatingCount(p) = 0
    THEN r = 0
    ELSE 2 * Abs(10 * LiveRatingSum(p) - r * LiveRatingCount(p)) <= LiveRatingCount(p)

\* editor e takes the UPDATE step of its product update
UpdateStep(e) == editors[e].pc = "read" /\ editors'[e].pc = "done"

\* editors a and b finished updates of the same product presenting the same version
SameVersionPair(a, b) ==
    /\ a # b
    /\ editors[a].pc = "done" /\ editors[b].pc = "done"
    /\ editors[a].result \in {"ok", "conflict"}
    /\ editors[b].result \in {"ok", "conflict"}
    /\ editors[a].product = editors[b].product
    /\ editors[a].version = editors[b].version

\* C7 as stated: of any two concurrent product updates presenting the same
\* version exactly one succeeds and the other gets conflict.
C7_ExactlyOneSucceeds ==
    \A a, b \in Editors :
        SameVersionPair(a, b) =>
            \/ editors[a].result = "ok" /\ editors[b].result = "conflict"
            \/ editors[a].result = "conflict" /\ editors[b].result = "ok"

\* C7 amended: a product update is applied only if the presented version
\* equals the stored version of a live product, otherwise it signals conflict
\* and leaves the products table unchanged; so of any two concurrent updates
\* presenting the same version at most one succeeds.
C7_OptimisticUpdate ==
    [][/\ \A e \in Editors :
            UpdateStep(e) =>
                LET p == editors[e].product
                IN  IF products[p].state = "live" /\ products[p].version = editors[e].version
                    THEN /\ editors'[e].result = "ok"
                         /\ products'[p].name = editors[e].name
                         /\ products'[p].version # products[p].version
                    ELSE /\ editors'[e].result = "conflict"
                         /\ products' = products
       /\ \A a, b \in Editors :
            SameVersionPair(a, b)' =>
                ~(editors'[a].result = "ok" /\ editors'[b].result = "ok")]_vars

\* C7 witness: two updates presented the same version, one succeeded and the
\* other got conflict.
C7_Witness ==
    \E a, b \in Editors :
        /\ SameVersionPair(a, b)
        /\ editors[a].result = "ok"
        /\ editors[b].result = "conflict"

\* C8: a product's version starts at 1, never decreases, and increases by
\* exactly one on every successful user edit and on every recompute that
\* updates the row.
C8_VersionMonotonic ==
    [][\A p \in Products :
        /\ products'[p].version >= products[p].version
        /\ (products[p].state = "missing" /\ products'[p].state # "missing")
              => products'[p].version = 1
        /\ (\E e \in Editors :
                UpdateStep(e) /\ editors[e].product = p /\ editors'[e].result = "ok")
              => products'[p].version = products[p].version + 1
        /\ (products[p].state = "live" /\ CalculateAndUpdate(p))
              => products'[p].version = products[p].version + 1]_vars

\* C8 witness: a product reached version 3 through a user edit and a recompute.
C8_Witness ==
    \E p \in Products :
        /\ products[p].version = 3
        /\ products[p].name = EditedName
        /\ recomputed[p]

\* C9: immediately after a recompute that updates live product p, its
\* average_rating is the mean of the ratings of its live reviews rounded to
\* one decimal, 0 if there are none; every stored value is within [0.0, 5.0].
C9_RecomputeIsRoundedMean ==
    [][\A p \in Products :
        /\ (products[p].state = "live" /\ CalculateAndUpdate(p))
              => IsRoundedMean(p, products[p].average_rating)'
        /\ products'[p].average_rating \in 0..50]_vars

\* C9 witness: a recompute stored 1.7 for the three live ratings 1, 2, 2.
C9_Witness ==
    \E p \in Products :
        /\ recomputed[p]
        /\ LiveRatingCount(p) = 3
        /\ LiveRatingSum(p) = 5
        /\ products[p].average_rating = 17

\* C10: with the live reviews of p unchanged, a further recompute of p leaves
\* the average_rating the first one stored.
C10_RecomputeIdempotent ==
    [][\A p \in Products :
        (recomputed[p] /\ products[p].state = "live" /\ CalculateAndUpdate(p))
            => products'[p].average_rating = products[p].average_rating]_vars

\* C10 witness: a product with live reviews was recomputed twice in succession.
C10_Witness ==
    \E p \in Products :
        /\ recomputed[p]
        /\ products[p].version >= 3
        /\ LiveRatingCount(p) > 0
        /\ products[p].average_rating > 0

Armed(p) == {t \in TimersOf(p) : timers[t].state = "armed"}

\* Shutdown has stopped the pending timers
ShutdownCleared == shutdownPc \in {"waiting", "returned", "deadline"}

ArmedProducts ==
    {p \in Products : \E t \in TimersOf(p) : timers[t].state \in {"armed", "fired"}}

\* C3: outside Shutdown, the pending count equals the number of distinct
\* products with an armed update
C3_PendingCountIsArmedProducts ==
    shutdownPc = "none" => GetPendingCount = Cardinality(ArmedProducts)

\* nothing is in flight: no call of the service, no publish goroutine, no
\* message to deliver, no debounce timer and no recompute
Quiet ==
    /\ \A r \in DOMAIN requests :
            requests[r].pc \in {"idle", "returned"} /\ requests[r].pub # "spawned"
    /\ \A m \in DOMAIN messages : messages[m].state \in {"acked", "dead"}
    /\ batch = <<>>
    /\ GetPendingCount = 0
    /\ \A t \in DOMAIN timers : timers[t].state \in {"stopped", "done"}

\* a failure of the cache, the bus, the store or the worker, or a shutdown
Faulty ==
    failures > 0 \/ proc # "up" \/ shutdownPc # "none" \/ restarts # <<>>

RatingsCorrect ==
    \A p \in Products : ProductLive(p) => IsRoundedMean(p, products[p].average_rating)

\* C1: unless a failure or a shutdown occurred, the pipeline eventually is
\* quiet for good with every live product's average_rating equal to the
\* rounded mean of its live reviews (0 without one), and whenever it is quiet
\* the ratings are that
C1_EventuallyConsistent ==
    /\ []((Quiet /\ ~Faulty) => RatingsCorrect)
    /\ <>[](Faulty \/ (Quiet /\ RatingsCorrect))

\* two concurrent creates (their events reached the stream in the other order
\* than they were stamped) with ratings 1 and 5, quiet at the mean 3.0
C1_Witness ==
    /\ Quiet /\ ~Faulty
    /\ Len(messages) = 2
    /\ messages[1].timestamp > messages[2].timestamp
    /\ \E p \in Products :
            /\ ProductLive(p)
            /\ LiveRatingCount(p) = 2
            /\ LiveRatingSum(p) = MinRating + MaxRating
            /\ products[p].average_rating = 5 * (MinRating + MaxRating)

\* a review of p was written by a call of the service
WrittenTo(p) ==
    \E r \in DOMAIN requests :
        /\ requests[r].product = p
        /\ \E k \in DOMAIN requests[r].log : requests[r].log[k] = "store"

\* C4: after a graceful shutdown and a restart, without any other failure,
\* once the pipeline is quiet every product whose reviews were written before
\* the shutdown (their events stored by the stream before it) was recomputed
\* after its last review write
C4_NoUpdateLostAcrossRestart ==
    (/\ restarts = <<"returned">>
     /\ proc = "up" /\ shutdownPc = "none"
     /\ failures = 0
     /\ Quiet
     /\ \A r \in DOMAIN requests : requests[r].pc = "returned" => requests[r].pub = "published"
     /\ \A m \in DOMAIN messages : messages[m].beforeShutdown)
    => \A p \in Products : (ProductLive(p) /\ WrittenTo(p)) => recomputed[p]

\* C5: a call whose store write succeeded returns success, whatever the cache
\* and the bus answered, and by then it called invalidate_all and started
\* the publish of its event
C5_WriteSucceedsDespiteFailures ==
    \A r \in DOMAIN requests :
        LET req == requests[r] IN
        (\E k \in DOMAIN req.log : req.log[k] = "store") =>
            /\ req.result \in {"none", "ok"}
            /\ req.pc = "returned" =>
                    /\ req.result = "ok"
                    /\ req.cache # "none"
                    /\ req.pub # "none"

\* a returned update whose invalidation and whose publish both failed
C5_Witness ==
    \E r \in DOMAIN requests :
        /\ requests[r].op = "update"
        /\ requests[r].pc = "returned"
        /\ requests[r].result = "ok"
        /\ requests[r].cache = "failed"
        /\ requests[r].pub = "failed"

IsPrefix(s, u) == Len(s) <= Len(u) /\ SubSeq(u, 1, Len(s)) = s

\* C6: every call makes its outside calls in this order: the store write, then
\* invalidate_all, then the start of the publish, then the publish itself
C6_PersistInvalidatePublish ==
    \A r \in DOMAIN requests :
        IsPrefix(requests[r].log, <<"store", "invalidate", "spawn", "publish">>)

\* a delete that went through all of them
C6_Witness ==
    \E r \in DOMAIN requests :
        /\ requests[r].op = "delete"
        /\ requests[r].log = <<"store", "invalidate", "spawn", "publish">>

\* the fetch loop hands the head of its batch to HandleEvent
HandleStep == loopPc = "handle" /\ loopPc' = "ack"

\* C11: when the worker handles an event of a product that has a pending
\* update with a strictly newer timestamp, the pending update keeps its
\* timestamp and its timer, no timer is created or stopped, the WaitGroup
\* counter and the catalog are untouched
C11_StaleEventDropped ==
    [][\A p \in Products :
        (/\ HandleStep
         /\ messages[Head(batch)].product = p
         /\ HasPending(p)
         /\ messages[Head(batch)].timestamp < pendingUpdates[p].timestamp)
        => /\ pendingUpdates' = pendingUpdates
           /\ timers' = timers
           /\ wg' = wg
           /\ products' = products]_vars

\* a newer event then an older one of the same product, both handled before
\* the only timer fired: one recompute and one version increment
C11_Witness ==
    /\ Len(messages) = 2
    /\ messages[1].product = messages[2].product
    /\ messages[1].timestamp > messages[2].timestamp
    /\ \A m \in DOMAIN messages : messages[m].state = "acked" /\ messages[m].deliveries = 1
    /\ Len(timers) = 1
    /\ timers[1].state = "done" /\ timers[1].attempt = 0
    /\ products[messages[1].product].version = InitialVersion + 1

\* C12: a timer that is still armed when Shutdown has stopped the pending
\* timers never fires, so no recompute is invoked for it, and once Shutdown
\* has returned the pending count is 0
C12_ShutdownCancelsPending ==
    /\ [][\A t \in DOMAIN timers :
            (ShutdownCleared /\ timers[t].state = "armed") => timers'[t].state # "fired"]_vars
    /\ [](shutdownPc \in {"returned", "deadline"} => GetPendingCount = 0)

\* timers whose processUpdate was invoked and has not returned
InFlight == {t \in DOMAIN timers : timers[t].state \in {"fired", "running", "backoff"}}

\* C13: Shutdown returns nil only when no recompute is in flight; from its
\* wait it leaves only with nil or with the caller's deadline error
C13_ShutdownWaitsForInFlight ==
    [][shutdownPc = "waiting" =>
            /\ shutdownPc' \in {"waiting", "returned", "deadline"}
            /\ shutdownPc' = "returned" => InFlight = {}]_vars

\* C14: the processUpdate of one timer calls the calculator at most
\* maxRetries times and, once it has returned, at least once; a call that
\* succeeded is its last one
C14_BoundedRetries ==
    \A t \in DOMAIN timers :
        /\ timers[t].calls <= maxRetries
        /\ timers[t].calls - timers[t].attempt \in {0, 1}
        /\ timers[t].calls = timers[t].attempt + 1 => timers[t].state = "done"
        /\ timers[t].state \in {"armed", "stopped", "fired"} => timers[t].calls = 0
        /\ timers[t].state = "done" => timers[t].calls >= 1

\* two failed attempts, then a successful third (no shutdown), and a fire
\* whose three attempts all failed
C14_Witness ==
    /\ shutdownPc = "none"
    /\ \E t \in DOMAIN timers :
            /\ timers[t].state = "done" /\ timers[t].calls = maxRetries
            /\ timers[t].attempt = maxRetries - 1
            /\ products[timers[t].product].version = InitialVersion + 1
    /\ \E t \in DOMAIN timers :
            timers[t].state = "done" /\ timers[t].attempt = maxRetries

\* the fetch loop holds message m: it was fetched and not yet answered
InBatch(m) == \E k \in DOMAIN batch : batch[k] = m

\* C15: the worker answers every delivery it handled with exactly one Ack or
\* Nak: Nak for a body that does not decode, which schedules nothing, Ack
\* for every other one, after scheduleUpdate ran for its product
C15_AckOrNakOncePerDelivery ==
    /\ [](\A m \in DOMAIN messages :
            /\ messages[m].valid => messages[m].naks = 0
            /\ ~messages[m].valid => messages[m].acks = 0
            /\ messages[m].acks + messages[m].naks =
                    messages[m].deliveries - (IF InBatch(m) THEN 1 ELSE 0))
    /\ [][(loopPc = "handle" /\ loopPc' # "handle") =>
            LET msg == messages[Head(batch)] IN
            IF msg.valid
            THEN /\ loopPc' = "ack"
                 /\ pendingUpdates'[msg.product].timer # 0
                 /\ pendingUpdates'[msg.product].timestamp >= msg.timestamp
            ELSE /\ loopPc' = "nak"
                 /\ UNCHANGED <<pendingUpdates, timers, wg>>]_vars
    /\ [][\A m \in DOMAIN messages :
            /\ messages'[m].acks # messages[m].acks \/ messages'[m].naks # messages[m].naks
                    => /\ batch # <<>> /\ m = Head(batch) /\ batch' = Tail(batch)
                       /\ loopPc = (IF messages[m].valid THEN "ack" ELSE "nak")]_vars

\* a body that does not decode was delivered and negatively acknowledged
\* MaxDeliveryAttempts times and scheduled nothing; the other message was
\* scheduled and acknowledged
C15_Witness ==
    /\ ~messages[1].valid /\ messages[1].naks = MaxDeliveryAttempts
    /\ messages[2].valid /\ messages[2].acks = 1 /\ messages[2].state = "acked"
    /\ batch = <<>>
    /\ Len(timers) = 1

\* the recomputes of p that returned after a successful calculator call
SucceededFor(p) ==
    {t \in TimersOf(p) : timers[t].state = "done" /\ timers[t].calls = timers[t].attempt + 1}

\* the recomputes of p that gave up after maxRetries failed calls
ExhaustedFor(p) ==
    {t \in TimersOf(p) : timers[t].state = "done" /\ timers[t].attempt = maxRetries}

\* C16: a message the worker has acknowledged had a successful recompute of
\* its product behind it, and a recompute that failed for good had a message
\* of its product negatively acknowledged
C16_AckAfterRecompute ==
    /\ \A m \in DOMAIN messages :
            messages[m].acks > 0 => SucceededFor(messages[m].product) # {}
    /\ \A p \in Products :
            ExhaustedFor(p) # {} =>
                \E m \in DOMAIN messages : messages[m].product = p /\ messages[m].naks > 0

\* C17: the consumer delivers a message at most MaxDeliveryAttempts times, a
\* message waits for another delivery only while it has had fewer, one that
\* was acknowledged or given up is never delivered or changed again, and one
\* is given up only after MaxDeliveryAttempts deliveries
C17_AtMostMaxDeliver ==
    /\ [](\A m \in DOMAIN messages :
            /\ messages[m].deliveries <= MaxDeliveryAttempts
            /\ messages[m].state = "pending" => messages[m].deliveries < MaxDeliveryAttempts
            /\ messages[m].state = "dead" => messages[m].deliveries = MaxDeliveryAttempts)
    /\ [][\A m \in DOMAIN messages :
            messages[m].state \in {"acked", "dead"} => messages'[m] = messages[m]]_vars

\* one message was given up after MaxDeliveryAttempts deliveries, the other
\* was delivered again after a lost Ack and then acknowledged
C17_Witness ==
    /\ messages[1].state = "dead" /\ messages[1].deliveries = MaxDeliveryAttempts
    /\ messages[2].state = "acked" /\ messages[2].deliveries = 2
    /\ messages[2].acks = 2

\* the processUpdate goroutines that are at their calculator call
Calculating == {t \in DOMAIN timers : timers[t].state = "running"}

\* C18: at most MaxConcurrentRecomputes calculator invocations are in
\* flight at any instant
C18_AtMostTenInFlight == Cardinality(Calculating) <= MaxConcurrentRecomputes

\* the calculator's UPDATE commits for live product p
RecomputeStep(p) ==
    products[p].state = "live" /\ CalculateAndUpdate(p) /\ editors' = editors

\* the user update of editor e has read its product and has not returned
EditInFlight(e) ==
    editors[e].pc = "read" \/ (editors[e].pc = "done" /\ editors[e].result # "not_found")

BreaksConstraint(req) ==
    \/ req.product = NoProduct
    \/ req.fields.first_name < 1 \/ req.fields.first_name > MaxNameLength
    \/ req.fields.last_name < 1 \/ req.fields.last_name > MaxNameLength
    \/ req.fields.review_text < 1 \/ req.fields.review_text > MaxTextLength
    \/ req.rating < MinRating \/ req.rating > MaxRating

\* C20: a create whose input breaks a constraint of Review has returned
\* invalid-input and has made no store write, no cache invalidation and no
\* publish; the step that takes the call changes no table
C20_InvalidCreateHasNoEffect ==
    /\ [](\A r \in DOMAIN requests :
            (requests[r].op = "create" /\ BreaksConstraint(requests[r])) =>
                /\ requests[r].pc = "returned"
                /\ requests[r].result = "invalid_input"
                /\ requests[r].log = <<>>
                /\ requests[r].cache = "none"
                /\ requests[r].pub = "none")
    /\ [][\A r \in DOMAIN requests :
            (requests[r].pc = "idle" /\ requests'[r].op = "create"
                /\ BreaksConstraint(requests'[r]))
            => /\ reviews' = reviews /\ products' = products
               /\ messages' = messages]_vars

\* the create of the cited test: an empty first name, everything else valid
C20_Witness ==
    \E r \in DOMAIN requests :
        /\ requests[r].op = "create"
        /\ requests[r].fields = [ValidFields EXCEPT !.first_name = 0]
        /\ requests[r].product # NoProduct
        /\ requests[r].rating = MaxRating
        /\ requests[r].pc = "returned"
        /\ requests[r].result = "invalid_input"
        /\ reviews = <<ReviewRow(1, MaxRating, FALSE)>>
        /\ messages = <<>>

\* C21: a create with valid input for a product that is missing or
\* soft-deleted when the call checks it returns not-found in that step,
\* which changes no table and stores no event; a create that returned
\* not-found made no store write, no cache invalidation and no publish
C21_CreateForDeadProductNotFound ==
    /\ [][\A r \in DOMAIN requests :
            (/\ requests[r].pc = "idle" /\ requests'[r].op = "create"
             /\ ~BreaksConstraint(requests'[r])
             /\ products[requests'[r].product].state # "live")
            => /\ requests'[r].pc = "returned"
               /\ requests'[r].result = "not_found"
               /\ reviews' = reviews /\ products' = products
               /\ messages' = messages]_vars
    /\ [](\A r \in DOMAIN requests :
            (requests[r].op = "create" /\ requests[r].result = "not_found") =>
                /\ requests[r].pc = "returned"
                /\ requests[r].log = <<>>
                /\ requests[r].cache = "none"
                /\ requests[r].pub = "none")

\* a create for a soft-deleted product returned not-found
C21_Witness ==
    \E r \in DOMAIN requests :
        /\ requests[r].op = "create"
        /\ requests[r].product # NoProduct
        /\ products[requests[r].product].state = "deleted"
        /\ requests[r].pc = "returned"
        /\ requests[r].result = "not_found"
        /\ Len(reviews) = 1
        /\ messages = <<>>

\* a calculator call of the recompute t whose statement ran without a fault
CalculatorReturns(t) ==
    /\ timers[t].state = "running"
    /\ timers'[t].calls = timers[t].calls + 1
    /\ failures' = failures
    /\ ~CtxCancelled

\* C22: a calculator call for a product that is missing or soft-deleted
\* returns without an error, so the recompute ends without a retry, and the
\* call changes no product row
C22_DeadProductRecomputeSucceeds ==
    [][\A t \in DOMAIN timers :
          (CalculatorReturns(t) /\ products[timers[t].product].state # "live")
          => /\ timers'[t].state = "done"
             /\ timers'[t].attempt = timers[t].attempt
             /\ products' = products]_vars

\* recomputes of a soft-deleted product have ended after one call each
C22_Witness ==
    /\ \E t \in DOMAIN timers :
            /\ products[timers[t].product].state = "deleted"
            /\ timers[t].state = "done"
            /\ timers[t].calls = 1
            /\ timers[t].attempt = 0
    /\ failures = 0

\* the cache holds no rating key, no page key and no tracking set of p
NothingCached(c, p) ==
    /\ c.rating[p] = 0
    /\ \A g \in Pages : c.lists[p][g] = 0
    /\ c.keys[p] = {}

\* a command of the call of InvalidateAllProductCache is executed
InvalidationStep == invalidation.pc # invalidation'.pc /\ invalidation.pc # "idle"

\* C23: when InvalidateAllProductCache(p) has returned without an error and
\* no other command wrote keys of p since it was called, the cache holds no
\* rating key, no page key and no tracking set of p
C23_InvalidateAllLeavesNothing ==
    ( /\ invalidation.pc = "returned"
      /\ invalidation.result = "ok"
      /\ ~invalidation.concurrent )
    => NothingCached(redis, invalidation.product)

\* C23, second half: a call made when nothing of p is cached returns without
\* an error unless a command fails, and none of its commands changes the cache
C23_EmptyInvalidateChangesNothing ==
    [][( /\ InvalidationStep
        /\ NothingCached(redis, invalidation.product) )
      => /\ redis' = redis
         /\ failures' = failures => invalidation'.result # "error"]_vars

\* a create of a review of p has returned success and no call of the service
\* is in progress: a read of p made now follows the create
ReadFollowsCreate(p) ==
    /\ \E r \in DOMAIN requests :
            /\ requests[r].op = "create"
            /\ requests[r].product = p
            /\ requests[r].pc = "returned"
            /\ requests[r].result = "ok"
    /\ \A r \in DOMAIN requests : requests[r].pc \in {"idle", "returned"}

\* C24: a read of a live product made after a create of one of its reviews
\* returned success, in a run without a failure, finds average_rating equal
\* to the rounded mean of the product's live reviews
C24_ReadAfterCreateSeesMean ==
    \A p \in Products :
        (ReadFollowsCreate(p) /\ ProductLive(p) /\ ~Faulty)
        => IsRoundedMean(p, products[p].average_rating)

\* recomputes in flight: processUpdate has removed the entry of its product
\* and has not returned
Recomputing == {t \in DOMAIN timers : timers[t].state \in {"running", "backoff"}}

\* C25: the wait-group counter is never negative and always equals the number
\* of PendingUpdates in the map plus the number of recomputes in flight
C25_WaitGroupCountsWork ==
    /\ wg >= 0
    /\ wg = GetPendingCount + Cardinality(Recomputing)

\* C26: whenever a timer is armed, the map holds for its product the
\* PendingUpdate that owns this timer
C26_ArmedTimerOwnsEntry ==
    \A t \in DOMAIN timers :
        timers[t].state = "armed" => pendingUpdates[timers[t].product].timer = t

\* C27: when the worker acknowledges a message, the map holds a
\* PendingUpdate for the product of the message
C27_AckedMessageIsPending ==
    [][\A m \in DOMAIN messages :
          messages'[m].acks > messages[m].acks => HasPending(messages[m].product)]_vars

\* C28: once Shutdown has closed shutdownCh no PendingUpdate is created or
\* reset and no timer is created or armed, whatever is scheduled, and from
\* the moment Shutdown has cleared the map the map is empty
C28_NoScheduleAfterShutdown ==
    /\ [][shutdownPc # "none" =>
            /\ \A p \in Products :
                    pendingUpdates'[p] # pendingUpdates[p] => pendingUpdates'[p] = NoPending
            /\ Len(timers') = Len(timers)
            /\ \A t \in DOMAIN timers :
                    timers'[t].state = "armed" => timers[t].state = "armed"
            /\ wg' <= wg]_vars
    /\ [](ShutdownCleared => \A p \in Products : pendingUpdates[p] = NoPending)

\* an event of p was scheduled after shutdownCh was closed, while the timer
\* of p had fired and its entry was still in the map: the event is not older
\* than the entry, and yet no timer was created for it
C28_Witness ==
    /\ shutdownPc = "closed"
    /\ Len(timers) = 1
    /\ timers[1].state = "fired"
    /\ pendingUpdates[timers[1].product] = [timestamp |-> 1, timer |-> 1]
    /\ afterFire[timers[1].product]

\* C29: handling an event whose timestamp is equal to or newer than the one
\* of the PendingUpdate of its product stops the pending timer, arms a new
\* one and stores the timestamp of the event; in no step does the timestamp
\* of a PendingUpdate that stays in the map decrease
C29_NewerEventRestartsTimer ==
    /\ [][\A p \in Products :
            LET msg == messages[Head(batch)]
                old == pendingUpdates[p].timer
                new == Len(timers) + 1 IN
            (/\ HandleStep
             /\ msg.valid /\ msg.product = p
             /\ shutdownPc = "none"
             /\ pendingUpdates[p].timer # 0
             /\ msg.timestamp >= pendingUpdates[p].timestamp)
            => /\ pendingUpdates'[p] = [timestamp |-> msg.timestamp, timer |-> new]
               /\ Len(timers') = new
               /\ timers'[new].state = "armed" /\ timers'[new].product = p
               /\ timers[old].state = "armed" => timers'[old].state = "stopped"]_vars
    /\ [][\A p \in Products :
            (pendingUpdates[p].timer # 0 /\ pendingUpdates'[p].timer # 0)
            => pendingUpdates'[p].timestamp >= pendingUpdates[p].timestamp]_vars

\* two events with the same timestamp: the second one stopped the timer of
\* the first and armed its own
C29_Witness ==
    /\ Len(timers) = 2
    /\ timers[1].state = "stopped" /\ timers[2].state = "armed"
    /\ messages[1].timestamp = messages[2].timestamp
    /\ messages[1].acks = 1 /\ messages[2].acks = 1
    /\ pendingUpdates[1] = [timestamp |-> messages[2].timestamp, timer |-> 2]

\* C30: while the worker's context is cancelled, a recompute that waits in
\* its retry backoff makes no calculator call; the only step it takes is its
\* return, which releases its wait-group entry
C30_CancelledBackoffReturns ==
    [][\A t \in DOMAIN timers :
          (timers[t].state = "backoff" /\ CtxCancelled /\ DOMAIN timers' = DOMAIN timers)
          => /\ timers'[t].calls = timers[t].calls
             /\ timers'[t].state \in {"backoff", "done"}
             /\ timers'[t].state = "done" => wg' = wg - 1]_vars

\* a recompute returned from its backoff: one failed call, no success and
\* retries left
C30_Witness ==
    \E t \in DOMAIN timers :
        /\ timers[t].state = "done"
        /\ timers[t].attempt = 1
        /\ timers[t].calls = 1
        /\ CtxCancelled
        /\ wg = 0

\* C31: at most one recompute of a product is in flight at any instant
C31_OneRecomputePerProduct ==
    \A p \in Products : Cardinality(Recomputing \cap TimersOf(p)) <= 1

\* C32: the goroutine that holds the mutex is not at a calculator call and
\* not in a retry backoff; the map changes only in a step of the holder; and
\* the step the holder takes after its Lock, whichever return it ends with,
\* leaves the mutex free
C32_MutexNotHeldOverRecompute ==
    /\ [](mu.by = "process" => timers[mu.timer].state = "fired")
    /\ [][pendingUpdates' # pendingUpdates => mu.by # "none"]_vars
    /\ [][(mu.by # "none" /\ (mu' # mu \/ timers' # timers \/ afterFire' # afterFire
                                        \/ pendingUpdates' # pendingUpdates))
            => (mu' = Unlocked \/ mu' = mu)]_vars
    /\ [][(mu.by # "none" /\ pendingUpdates' # pendingUpdates) => mu' = Unlocked]_vars

\* a schedule call was rejected (shutdown or stale event) while the only
\* recompute was invoked, and the mutex is free while that recompute waits
\* in its backoff
C32_Witness ==
    /\ mu = Unlocked
    /\ Len(timers) = 1
    /\ timers[1].state = "backoff"
    /\ afterFire[timers[1].product]

\* C33: every step that inserts a review finds the product's row live, also
\* when a product delete runs between the statements of the create
C33_InsertOnlyForLiveProduct ==
    [][Len(reviews') > Len(reviews)
        => products[reviews'[Len(reviews')].product_id].state = "live"]_vars

\* C34: every page key of a product that is in the cache is a member of the
\* product's tracking set
C34_CachedPageIsTracked ==
    \A p \in Products : \A g \in Pages :
        redis.lists[p][g] # 0 => g \in redis.keys[p]

\* C35: a write method that returned success has its publish call behind
\* it: the stream stored the event or the publish failed
C35_ReturnFollowsPublish ==
    \A r \in DOMAIN requests :
        (requests[r].pc = "returned" /\ requests[r].result = "ok")
            => requests[r].pub \in {"published", "failed"}

\* the number of entries e in the log of calls
Calls(log, e) == Cardinality({k \in DOMAIN log : log[k] = e})

\* C36: a publish goroutine is started at most once per write and only after
\* the write's store statement; a write that returned invalid-input, not-found
\* or an error started none; a write that returned success started exactly
\* one; the stream holds one event per publish that succeeded
C36_PublishOnlyPersistedWrites ==
    /\ \A r \in DOMAIN requests :
          LET req == requests[r] IN
          /\ Calls(req.log, "spawn") <= 1
          /\ Calls(req.log, "publish") <= Calls(req.log, "spawn")
          /\ \A k \in DOMAIN req.log :
                req.log[k] = "spawn" => \E j \in 1..(k - 1) : req.log[j] = "store"
          /\ req.pub # "none" <=> Calls(req.log, "spawn") = 1
          /\ req.result \in {"invalid_input", "not_found", "error"}
                => Calls(req.log, "spawn") = 0
          /\ (req.pc = "returned" /\ req.result = "ok") => Calls(req.log, "spawn") = 1
    /\ Len(messages) = Cardinality({r \in DOMAIN requests : requests[r].pub = "published"})

\* a write returned success after the store, the invalidation and the start
\* of one publish, and its event is in the stream
C36_Witness ==
    \E r \in DOMAIN requests :
        /\ requests[r].result = "ok"
        /\ requests[r].pub = "published"
        /\ requests[r].log = <<"store", "invalidate", "spawn", "publish">>
        /\ Len(messages) = 1

\* the input of an update breaks a constraint of Review (the product id is
\* not part of the input of an update)
BreaksUpdateConstraint(req) ==
    \/ req.fields.first_name < 1 \/ req.fields.first_name > MaxNameLength
    \/ req.fields.last_name < 1 \/ req.fields.last_name > MaxNameLength
    \/ req.fields.review_text < 1 \/ req.fields.review_text > MaxTextLength
    \/ req.rating < MinRating \/ req.rating > MaxRating

\* C37: an update whose input breaks a constraint of Review is answered
\* with invalid-input whether or not the review exists, and has made no
\* store write, no cache invalidation and no publish
C37_InvalidUpdateIsInvalidInput ==
    \A r \in DOMAIN requests :
        ( /\ requests[r].op = "update"
          /\ BreaksUpdateConstraint(requests[r])
          /\ requests[r].pc = "returned" )
        => /\ requests[r].result = "invalid_input"
           /\ requests[r].log = <<>>
           /\ requests[r].cache = "none"
           /\ requests[r].pub = "none"

\* the request went on past ReviewRepository.GetByID
PastGetByID(req) == req.op \in {"update", "delete"} /\ req.pc \notin {"idle", "returned"}

\* C38: an update or delete that found its review works with the product id
\* of the stored review, whatever the request named: the invalidation it calls
\* is for that product and the event it publishes carries it; and no step
\* changes the product id of a stored review
C38_StoredProductIdIsUsed ==
    /\ [](\A r \in DOMAIN requests :
            LET req == requests[r] IN
            /\ (PastGetByID(req) \/ (req.op \in {"update", "delete"} /\ req.result = "ok"))
                  => req.product = reviews[req.review].product_id
            /\ (req.op \in {"update", "delete"} /\ req.pub = "published")
                  => \E k \in DOMAIN messages :
                        /\ messages[k].product = reviews[req.review].product_id
                        /\ messages[k].timestamp = req.timestamp)
    /\ [][\A r \in DOMAIN requests :
            (requests[r].pc = "stored" /\ requests'[r].pc = "invalidated"
                /\ requests[r].op \in {"update", "delete"})
            => \/ failures' # failures
               \/ redis' = AllProductCacheInvalidated(redis,
                                reviews[requests[r].review].product_id)]_vars
    /\ [][\A i \in DOMAIN reviews : reviews'[i].product_id = reviews[i].product_id]_vars

\* an update that named another product than the stored review's has
\* published its event, which carries the stored review's product
C38_Witness ==
    \E r \in DOMAIN requests :
        /\ requests[r].op = "update"
        /\ requests[r].pub = "published"
        /\ requests[r].sent \notin {NoProduct, reviews[requests[r].review].product_id}
        /\ messages[1].product = reviews[requests[r].review].product_id

\* C39: the step that handles an event is the schedule of the event's
\* product id and timestamp followed by the acknowledgement, whatever the
\* event's kind and snapshot are; a step changes a product row only as the
\* calculator does, from the reviews table; and when the events are
\* acknowledged and the recomputes done, the stored rating is the mean of
\* the stored reviews
C39_KindAndSnapshotIgnored ==
    /\ [][(loopPc = "handle" /\ loopPc' # loopPc)
            => LET msg == messages[Head(batch)] IN
               /\ ScheduleUpdate(msg.product, msg.timestamp)
               /\ loopPc' = "ack"]_vars
    /\ [][products' # products
            => \E t \in DOMAIN timers : CalculateAndUpdate(timers[t].product)]_vars
    /\ []((/\ \A m \in DOMAIN messages : messages[m].state = "acked"
           /\ timers # <<>>
           /\ \A t \in DOMAIN timers : timers[t].state = "done"
           /\ failures = 0)
            => \A p \in EventProducts :
                    products[p].average_rating = AverageRatingOf(reviews, p))

\* an event of unknown kind with a snapshot and an event of a known kind
\* without one were handled, acknowledged and recomputed
C39_Witness ==
    /\ messages[1].kind = "unknown" /\ messages[1].snapshot = MinRating
    /\ messages[2].kind = "review.created" /\ messages[2].snapshot = 0
    /\ \A m \in DOMAIN messages : messages[m].state = "acked"
    /\ timers # <<>>
    /\ \A t \in DOMAIN timers : timers[t].state = "done"
    /\ products[1].average_rating = 10 * MaxRating

\* the consumer was added with a backoff list of the length the max-deliver
\* asks for
RightLength ==
    Len(consumer.backoff) = IF consumer.maxDeliver <= 1 THEN 0 ELSE consumer.maxDeliver - 1

\* 2^i seconds are a Duration: 10^9 * 2^i < 2^(DurationBits - 1)
SecondsFit(i) ==
    LET room == DurationBits - 1 - i IN
    /\ room > 0
    /\ room > 30 \/ SecondMantissa * (2 ^ SecondShift) < 2 ^ room

====
